---- MODULE Spec2Model ----
(***************************************************************************)
(* The queue pipeline of the image import system: the API intake pushes    *)
(* folder jobs, the import service expands a folder job into image tasks,  *)
(* the worker service downloads, uploads and records each image.           *)
(***************************************************************************)
EXTENDS Integers, Sequences, FiniteSets, TLC

(***************************************************************************)
(* Bounds of the model.                                                    *)
(***************************************************************************)
MaxJobs == 2
MaxEvents == 6
MaxCrashes == 1

(***************************************************************************)
(* Program constants.                                                      *)
(***************************************************************************)
MAX_RETRIES == 3
RETRY_DELAY_MS == 5000
NumWorkers == 2
FOLDER_IMPORT_QUEUE == "folder_import_queue"
IMAGE_TASK_QUEUE == "image_task_queue"
MINIO_BUCKET == "images"
\* the list the API gateway pushes its jobs to
IMPORT_QUEUE == "image_import_queue"

QueueNames == {FOLDER_IMPORT_QUEUE, IMAGE_TASK_QUEUE, IMPORT_QUEUE}
Workers == 1..NumWorkers

(***************************************************************************)
(* JavaScript values.  A string is a sequence of tokens; a token taken     *)
(* from user data is one character, a literal of the program is one token. *)
(* NumStr(n) is the string holding the decimal numeral of n.               *)
(***************************************************************************)
Undefined == <<"undefined">>
Null == <<"null">>
Num(n) == <<"num", n>>
Str(s) == <<"str", s>>
NumStr(n) == <<"numstr", n>>

Truthy(v) ==
  CASE v[1] = "undefined" -> FALSE
    [] v[1] = "null" -> FALSE
    [] v[1] = "num" -> v[2] # 0
    [] v[1] = "str" -> v[2] # <<>>
    [] v[1] = "numstr" -> TRUE

Or(a, b) == IF Truthy(a) THEN a ELSE b

ParseInt(v) == IF v[1] = "numstr" THEN Num(v[2]) ELSE v

StartsWithImage(v) == v[1] = "str" /\ Len(v[2]) > 0 /\ v[2][1] = "image/"

(***************************************************************************)
(* A JavaScript object is the sequence of its <<key, value>> members.      *)
(***************************************************************************)
Prop(o, k) ==
  IF \E i \in DOMAIN o : o[i][1] = k
  THEN o[CHOOSE i \in DOMAIN o : o[i][1] = k][2]
  ELSE Undefined

IsDefined(m) == m[2] # Undefined

\* a serialisation that keeps the first member only
JSONStringify_first(o) == [json |-> SubSeq(SelectSeq(o, IsDefined), 1, 1)]

JSONStringify(o) == [json |-> SelectSeq(o, IsDefined)]

JSONParse(text) == text.json

\* texts without a job or a task in them: JSON.parse throws a SyntaxError, or
\* returns null and the read of job_id or file_name throws a TypeError
RawTexts == {[raw |-> <<"{", "oops">>], [raw |-> <<"null">>]}

Parsable(text) == "json" \in DOMAIN text

(***************************************************************************)
(* The folder share provider: the files of each Drive folder.              *)
(***************************************************************************)
Folders == {"F1", "F2"}

DriveFile(id, name, mime, size) ==
  << <<"id", Str(<<id>>)>>, <<"name", Str(<<name>>)>>,
     <<"mimeType", Str(mime)>>, <<"size", NumStr(size)>> >>

DriveFolder(folderId) ==
  IF folderId = Str(<<"F1">>)
  THEN << DriveFile("a", "x.jpg", <<"image/", "jpeg">>, 100),
          DriveFile("b", "y.png", <<"image/", "png">>, 200) >>
  ELSE << DriveFile("c", "z.txt", <<"text/", "plain">>, 7),
          DriveFile("d", "w.gif", <<"image/", "gif">>, 300) >>

\* a listing that keeps every file of the folder
IsImageFile_any(f) == TRUE

IsImageFile(f) == Truthy(Prop(f, "mimeType")) /\ StartsWithImage(Prop(f, "mimeType"))

ListFilesInFolder(folderId) == SelectSeq(DriveFolder(folderId), IsImageFile)

\* a Dropbox client that lists the folder as the Drive client does
DropboxListFilesInFolder_listing(folderId, folderUrl) == ListFilesInFolder(folderId)

DropboxListFilesInFolder(folderId, folderUrl) == <<>>

ListFiles(job) ==
  IF Prop(job, "source") = Str(<<"dropbox">>)
  THEN DropboxListFilesInFolder(Prop(job, "folder_id"), Prop(job, "folder_url"))
  ELSE ListFilesInFolder(Prop(job, "folder_id"))

DriveMeta(fileId) ==
  LET all == DriveFolder(Str(<<"F1">>)) \o DriveFolder(Str(<<"F2">>))
      hit == SelectSeq(all, LAMBDA f : Prop(f, "id") = fileId)
  IN  IF hit = <<>> THEN <<>> ELSE hit[1]

(***************************************************************************)
(* State.                                                                  *)
(***************************************************************************)
VARIABLES
  redis,     \* the Redis lists: queue name -> sequence of elements
  stage,     \* the import service process
  worker,    \* the worker service processes
  storage,   \* object name -> content type, the bucket
  catalog,   \* the rows of image_metadata, in insertion order
  nextJob,   \* number of the next job id to hand out
  nextUid,   \* identity of the next list element (history)
  hist,      \* what became of each list element (history)
  faults,    \* transient failures injected so far
  crashes,   \* process terminations so far
  spent,     \* events of the environment's budget used so far
  deploy,    \* the deployment: is the API service's queue worker started, how many workers run
  probe      \* arguments and results of the metadata rules applied on their own

vars == <<redis, stage, worker, storage, catalog, nextJob, nextUid, hist, faults, crashes, spent,
          deploy, probe>>

NoObject == <<>>

NoProbe == [phase |-> "none"]

(***************************************************************************)
(* The environment's budget: an import request costs two events and one   *)
(* more for each image file of its folder, a process termination costs    *)
(* two, a transient failure or a blPop that times out costs one.           *)
(***************************************************************************)
RequestCost(folder, source) ==
  2 + Len(ListFiles(<< <<"folder_id", Str(<<folder>>)>>, <<"source", Str(<<source>>)>> >>))

CanRequest(folder, source) ==
  nextJob <= MaxJobs /\ spent + RequestCost(folder, source) <= MaxEvents

CanFault == spent + 1 <= MaxEvents

CanCrash == crashes < MaxCrashes /\ spent + 2 <= MaxEvents

(***************************************************************************)
(* Redis list commands.                                                    *)
(***************************************************************************)
\* a push to the head of the list
RPush_head(r, q, elem) == [r EXCEPT ![q] = <<elem>> \o @]

RPush(r, q, elem) == [r EXCEPT ![q] = Append(@, elem)]

BLPopElement(list) == Head(list)

\* a read of the head that leaves it on the list
BLPopRest_peek(list) == list

\* a pop that returns the head and removes the last element
BLPopRest_last(list) == SubSeq(list, 1, Len(list) - 1)

BLPopRest(list) == Tail(list)

Element(uid, text) == [uid |-> uid, text |-> text]

(***************************************************************************)
(* History of the list elements.                                           *)
(***************************************************************************)
NewHist(kind, parent) ==
  [kind |-> kind, parent |-> parent, pops |-> 0, status |-> "queued",
   listed |-> -1, pushed |-> 0, inserted |-> 0, attempts |-> 0, key |-> Undefined,
   exit |-> "none", worker |-> 0, row |-> 0, sent |-> NoObject]

Record(h, uid, entry) == [u \in (DOMAIN h) \cup {uid} |-> IF u = uid THEN entry ELSE h[u]]

(***************************************************************************)
(* API service: POST /import/google-drive and POST /import/dropbox.        *)
(***************************************************************************)
JobId(n) == Str(<<"job", ToString(n)>>)

FolderUrl(folder) == Str(<<"https://", "/folders/", folder>>)

JobData(n, folder, source) ==
  << <<"job_id", JobId(n)>>, <<"folder_id", Str(<<folder>>)>>,
     <<"folder_url", FolderUrl(folder)>>, <<"source", Str(<<source>>)>> >>

ImportRequest(folder, source) ==
  /\ CanRequest(folder, source)
  /\ spent' = spent + RequestCost(folder, source)
  /\ redis' = RPush(redis, FOLDER_IMPORT_QUEUE,
                    Element(nextUid, JSONStringify(JobData(nextJob, folder, source))))
  /\ hist' = Record(hist, nextUid, [NewHist("job", 0) EXCEPT !.sent = JobData(nextJob, folder, source)])
  /\ nextJob' = nextJob + 1
  /\ nextUid' = nextUid + 1
  /\ UNCHANGED <<stage, worker, storage, catalog, faults, crashes, deploy, probe>>

(***************************************************************************)
(* API gateway: the same two routes, pushing to its own list.              *)
(***************************************************************************)
GatewayImportRequest(folder, source) ==
  /\ CanRequest(folder, source)
  /\ spent' = spent + RequestCost(folder, source)
  /\ redis' = RPush(redis, IMPORT_QUEUE,
                    Element(nextUid, JSONStringify(JobData(nextJob, folder, source))))
  /\ hist' = Record(hist, nextUid, [NewHist("job", 0) EXCEPT !.sent = JobData(nextJob, folder, source)])
  /\ nextJob' = nextJob + 1
  /\ nextUid' = nextUid + 1
  /\ UNCHANGED <<stage, worker, storage, catalog, faults, crashes, deploy, probe>>

(***************************************************************************)
(* Life of a service process, the same in the import service and in the    *)
(* worker service: main connects to Redis and exits with code 1 when that  *)
(* fails; the catch of the service loop sleeps and loops; the SIGTERM and  *)
(* SIGINT handlers close the connections and exit with code 0.             *)
(***************************************************************************)
QUEUE_ERROR_DELAY_MS == 5000

\* main: redisClient.connect() threw
ConnectFailed(idle) == [idle EXCEPT !.pc = "exited", !.exit = "connect"]

\* a loop that gives up on a queue error like main does at startup
LoopCatch_exit(pr) == [pr EXCEPT !.pc = "exited", !.exit = "connect"]

\* the outer catch of the service loop: blPop threw
LoopCatch(pr) == [pr EXCEPT !.pc = "backoff", !.wait = QUEUE_ERROR_DELAY_MS]

\* a loop that takes a blPop timeout for a queue error
OnTimeout_error(pr) == [pr EXCEPT !.pc = "backoff", !.wait = QUEUE_ERROR_DELAY_MS]

\* blPop returned null after QUEUE_TIMEOUT seconds: the loop goes on
OnTimeout(pr) == pr

\* process.on('SIGTERM' / 'SIGINT'): quit and process.exit(0)
SignalHandler(idle) == [idle EXCEPT !.pc = "exited", !.exit = "signal"]

\* the process is killed or crashes
Killed(idle) == [idle EXCEPT !.pc = "exited", !.exit = "kill"]

\* the handlers are registered once main has connected
HandlersRegistered(pr) == pr.pc \notin {"connect", "exited"}

(***************************************************************************)
(* Import service.                                                         *)
(***************************************************************************)
StageIdle ==
  [pc |-> "pop", job |-> NoObject, uid |-> 0, files |-> <<>>, idx |-> 0, exit |-> "none", wait |-> 0]

ImageTask(job, file) ==
  << <<"job_id", Prop(job, "job_id")>>,
     <<"folder_id", Prop(job, "folder_id")>>,
     <<"folder_url", Prop(job, "folder_url")>>,
     <<"file_id", Or(Prop(file, "id"), Prop(file, "fileId"))>>,
     <<"file_name", Prop(file, "name")>>,
     <<"mime_type", Or(Prop(file, "mimeType"), Str(<<"image/", "jpeg">>))>>,
     <<"file_size", IF Truthy(Prop(file, "size")) THEN ParseInt(Prop(file, "size")) ELSE Null>>,
     <<"source", Prop(job, "source")>> >>

\* a loop that walks the listing from its end
FileAt_reversed(files, idx) == files[Len(files) - idx + 1]

\* for (const file of files): the file of iteration idx
FileAt(files, idx) == files[idx]

\* a loop that stops one file early
LoopDone_early(idx, files) == idx + 1 >= Len(files)

\* for (const file of files): the file at idx was the last one
LoopDone(idx, files) == idx = Len(files)

\* a catch that puts the failed job back on its queue
OnJobError_requeue(r, elem) == RPush(r, FOLDER_IMPORT_QUEUE, elem)

\* the catch of the service loop: the failed job is only logged
OnJobError(r, elem) == r

\* a loop that pops the next job while the last one is still being expanded
StageReady_eager(st) == st.pc \in {"pop", "push"}

\* the service loop is at its blPop: the await of processFolderJob returned
StageReady(st) == st.pc = "pop"

ImpPop ==
  /\ StageReady(stage)
  /\ redis[FOLDER_IMPORT_QUEUE] # <<>>
  /\ Parsable(BLPopElement(redis[FOLDER_IMPORT_QUEUE]).text)
  /\ LET elem == BLPopElement(redis[FOLDER_IMPORT_QUEUE])
     IN  /\ redis' = [redis EXCEPT ![FOLDER_IMPORT_QUEUE] = BLPopRest(@)]
         /\ stage' = [StageIdle EXCEPT !.pc = "list", !.job = JSONParse(elem.text), !.uid = elem.uid]
         /\ hist' = [hist EXCEPT ![elem.uid].pops = @ + 1, ![elem.uid].status = "held"]
  /\ UNCHANGED <<worker, storage, catalog, nextJob, nextUid, faults, crashes, spent, deploy, probe>>

ImpListOk ==
  /\ stage.pc = "list"
  /\ LET files == ListFiles(stage.job)
     IN  /\ stage' = IF files = <<>> THEN StageIdle
                     ELSE [stage EXCEPT !.pc = "push", !.files = files, !.idx = 1]
         /\ hist' = [hist EXCEPT ![stage.uid].listed = Len(files),
                                 ![stage.uid].status = IF files = <<>> THEN "ok" ELSE @]
  /\ UNCHANGED <<redis, worker, storage, catalog, nextJob, nextUid, faults, crashes, spent, deploy, probe>>

ImpListFail ==
  /\ stage.pc = "list"
  /\ Prop(stage.job, "source") # Str(<<"dropbox">>)
  /\ CanFault
  /\ faults' = faults + 1
  /\ spent' = spent + 1
  /\ redis' = OnJobError(redis, Element(stage.uid, JSONStringify(stage.job)))
  /\ stage' = StageIdle
  /\ hist' = [hist EXCEPT ![stage.uid].status = "listfail"]
  /\ UNCHANGED <<worker, storage, catalog, nextJob, nextUid, crashes, deploy, probe>>

ImpPush ==
  /\ stage.pc = "push"
  /\ LET task == ImageTask(stage.job, FileAt(stage.files, stage.idx))
         last == LoopDone(stage.idx, stage.files)
     IN  /\ redis' = RPush(redis, IMAGE_TASK_QUEUE, Element(nextUid, JSONStringify(task)))
         /\ hist' = Record([hist EXCEPT ![stage.uid].pushed = @ + 1,
                                        ![stage.uid].status = IF last THEN "ok" ELSE @],
                           nextUid, [NewHist("task", stage.uid) EXCEPT !.sent = task])
         /\ stage' = IF last THEN StageIdle ELSE [stage EXCEPT !.idx = @ + 1]
  /\ nextUid' = nextUid + 1
  /\ UNCHANGED <<worker, storage, catalog, nextJob, faults, crashes, spent, deploy, probe>>

ImpPushFail ==
  /\ stage.pc = "push"
  /\ CanFault
  /\ faults' = faults + 1
  /\ spent' = spent + 1
  /\ redis' = OnJobError(redis, Element(stage.uid, JSONStringify(stage.job)))
  /\ stage' = StageIdle
  /\ hist' = [hist EXCEPT ![stage.uid].status = "pushfail"]
  /\ UNCHANGED <<worker, storage, catalog, nextJob, nextUid, crashes, deploy, probe>>

ImpCrash ==
  /\ stage.pc \in {"list", "push"}
  /\ CanCrash
  /\ crashes' = crashes + 1
  /\ spent' = spent + 2
  /\ stage' = Killed(StageIdle)
  /\ hist' = [hist EXCEPT ![stage.uid].status = "lost", ![stage.uid].exit = "kill"]
  /\ UNCHANGED <<redis, worker, storage, catalog, nextJob, nextUid, faults, deploy, probe>>

ImpRestart ==
  /\ stage.pc = "exited"
  /\ stage' = [StageIdle EXCEPT !.pc = "connect"]
  /\ UNCHANGED <<redis, worker, storage, catalog, nextJob, nextUid, hist, faults, crashes, spent, deploy, probe>>

ImpConnectOk ==
  /\ stage.pc = "connect"
  /\ stage' = StageIdle
  /\ UNCHANGED <<redis, worker, storage, catalog, nextJob, nextUid, hist, faults, crashes, spent, deploy, probe>>

ImpConnectFail ==
  /\ stage.pc = "connect"
  /\ CanFault
  /\ faults' = faults + 1
  /\ spent' = spent + 1
  /\ stage' = ConnectFailed(StageIdle)
  /\ UNCHANGED <<redis, worker, storage, catalog, nextJob, nextUid, hist, crashes, deploy, probe>>

ImpPopFail ==
  /\ stage.pc = "pop"
  /\ CanFault
  /\ faults' = faults + 1
  /\ spent' = spent + 1
  /\ stage' = LoopCatch(stage)
  /\ UNCHANGED <<redis, worker, storage, catalog, nextJob, nextUid, hist, crashes, deploy, probe>>

ImpBackoffDone ==
  /\ stage.pc = "backoff"
  /\ stage' = StageIdle
  /\ UNCHANGED <<redis, worker, storage, catalog, nextJob, nextUid, hist, faults, crashes, spent, deploy, probe>>

ImpPopTimeout ==
  /\ stage.pc = "pop"
  /\ redis[FOLDER_IMPORT_QUEUE] = <<>>
  /\ CanFault
  /\ spent' = spent + 1
  /\ stage' = OnTimeout(stage)
  /\ UNCHANGED <<redis, worker, storage, catalog, nextJob, nextUid, hist, faults, crashes, deploy, probe>>

ImpSignal ==
  /\ HandlersRegistered(stage)
  /\ CanCrash
  /\ crashes' = crashes + 1
  /\ spent' = spent + 2
  /\ stage' = SignalHandler(StageIdle)
  /\ hist' = IF stage.pc \in {"list", "push"}
             THEN [hist EXCEPT ![stage.uid].status = "lost", ![stage.uid].exit = "signal"]
             ELSE hist
  /\ UNCHANGED <<redis, worker, storage, catalog, nextJob, nextUid, faults, deploy, probe>>

(***************************************************************************)
(* Providers, storage and catalog as the worker service uses them.         *)
(***************************************************************************)
ToStr(v) == IF v[1] = "str" THEN v[2] ELSE <<v[1]>>

DriveDownloadFile(fileId) ==
  LET meta == DriveMeta(fileId)
      len == IF Prop(meta, "size")[1] = "numstr" THEN Num(Prop(meta, "size")[2]) ELSE Num(0)
  IN  [mimeType |-> Or(Prop(meta, "mimeType"), Str(<<"application/", "octet-stream">>)),
       size |-> Or(ParseInt(Prop(meta, "size")), len)]

DropboxDownloadFile(fileId, fileUrl) ==
  [mimeType |-> Str(<<"application/", "octet-stream">>), size |-> Num(1)]

DownloadFile(task) ==
  IF Prop(task, "source") = Str(<<"dropbox">>)
  THEN DropboxDownloadFile(Prop(task, "file_id"), Prop(task, "folder_url"))
  ELSE DriveDownloadFile(Prop(task, "file_id"))

\* a rule that prefers the task's mime type to the provider's
EffectiveMimeType_advisoryFirst(task, mimeType) ==
  IF Truthy(Prop(task, "mime_type"))
  THEN Prop(task, "mime_type")
  ELSE IF Truthy(mimeType) /\ StartsWithImage(mimeType) THEN mimeType ELSE Str(<<"image/", "jpeg">>)

EffectiveMimeType(task, mimeType) ==
  IF ~Truthy(mimeType) \/ ~StartsWithImage(mimeType)
  THEN Or(Prop(task, "mime_type"), Str(<<"image/", "jpeg">>))
  ELSE mimeType

\* a rule that takes any non-zero size of the task
EffectiveSize_anySign(task, size) ==
  LET fs == Prop(task, "file_size")
  IN  IF Truthy(fs) THEN fs ELSE size

EffectiveSize(task, size) ==
  LET fs == Prop(task, "file_size")
  IN  IF Truthy(fs) /\ fs[1] = "num" /\ fs[2] > 0 THEN fs ELSE size

\* a key that also names the job the task came from
ObjectName_perJob(task) ==
  Str(<<"images/">> \o ToStr(Prop(task, "source")) \o <<"/">>
      \o ToStr(Prop(task, "job_id")) \o <<"/">>
      \o ToStr(Prop(task, "file_id")) \o <<"/">> \o ToStr(Prop(task, "file_name")))

ObjectName(task) ==
  Str(<<"images/">> \o ToStr(Prop(task, "source")) \o <<"/">>
      \o ToStr(Prop(task, "file_id")) \o <<"/">> \o ToStr(Prop(task, "file_name")))

StoragePath(bucket, objectName) == Str(<<"s3://", bucket, "/">> \o ToStr(objectName))

\* an upload that stores nothing
PutObject_skip(st, objectName, contentType) == st

PutObject(st, objectName, contentType) ==
  [k \in (DOMAIN st) \cup {objectName} |-> IF k = objectName THEN contentType ELSE st[k]]

\* a record that files every provider id under the drive column
ImageData_driveOnly(task, size, mimeType, storagePath) ==
  [name |-> Prop(task, "file_name"),
   google_drive_id |-> Prop(task, "file_id"),
   dropbox_id |-> Null,
   size |-> size,
   mime_type |-> mimeType,
   storage_path |-> storagePath,
   source |-> Prop(task, "source")]

ImageData(task, size, mimeType, storagePath) ==
  [name |-> Prop(task, "file_name"),
   google_drive_id |-> IF Prop(task, "source") = Str(<<"google_drive">>) THEN Prop(task, "file_id") ELSE Null,
   dropbox_id |-> IF Prop(task, "source") = Str(<<"dropbox">>) THEN Prop(task, "file_id") ELSE Null,
   size |-> size,
   mime_type |-> mimeType,
   storage_path |-> storagePath,
   source |-> Prop(task, "source")]

\* a table without the UNIQUE constraint
UniqueViolation_none(cat, row) == FALSE

\* image_metadata: storage_path UNIQUE NOT NULL
UniqueViolation(cat, row) == \E i \in DOMAIN cat : cat[i].storage_path = row.storage_path

\* an INSERT that replaces the rows of the table
InsertRow_replace(cat, row) ==
  <<[id |-> Len(cat) + 1, name |-> row.name, google_drive_id |-> row.google_drive_id,
     dropbox_id |-> row.dropbox_id, size |-> row.size, mime_type |-> row.mime_type,
     storage_path |-> row.storage_path, source |-> row.source]>>

InsertRow(cat, row) ==
  Append(cat, [id |-> Len(cat) + 1, name |-> row.name, google_drive_id |-> row.google_drive_id,
               dropbox_id |-> row.dropbox_id, size |-> row.size, mime_type |-> row.mime_type,
               storage_path |-> row.storage_path, source |-> row.source])

(***************************************************************************)
(* API service: the background queue worker, started when the environment  *)
(* sets ENABLE_QUEUE_WORKER to 'true'.  processGoogleDriveFolder lists the *)
(* folder, copies each file to the S3 bucket (not the bucket of the worker *)
(* service) and calls insertImageMetadata with url, source and folder_id   *)
(* only; processDropboxFolder only logs.  Neither pushes an image task.    *)
(***************************************************************************)
ApiImageData(job) ==
  [name |-> Undefined, google_drive_id |-> Undefined, dropbox_id |-> Undefined,
   size |-> Undefined, mime_type |-> Undefined, storage_path |-> Undefined,
   source |-> Str(<<"google_drive">>)]

\* image_metadata: name, size, mime_type, storage_path, source NOT NULL
NotNullViolation(row) ==
  \E v \in {row.name, row.size, row.mime_type, row.storage_path, row.source} :
    v \in {Undefined, Null}

\* the per-file catch of processGoogleDriveFolder logs a rejected INSERT
ApiProcessFolder(cat, job) ==
  IF Prop(job, "source") = Str(<<"google_drive">>)
     /\ DriveFolder(Prop(job, "folder_id")) # <<>>
     /\ ~NotNullViolation(ApiImageData(job))
  THEN InsertRow(cat, ApiImageData(job))
  ELSE cat

StartQueueWorker ==
  /\ deploy.queueWorker
  /\ redis[FOLDER_IMPORT_QUEUE] # <<>>
  /\ LET elem == BLPopElement(redis[FOLDER_IMPORT_QUEUE])
     IN  /\ redis' = [redis EXCEPT ![FOLDER_IMPORT_QUEUE] = BLPopRest(@)]
         /\ catalog' = ApiProcessFolder(catalog, JSONParse(elem.text))
         /\ hist' = [hist EXCEPT ![elem.uid].pops = @ + 1, ![elem.uid].status = "discarded"]
  /\ UNCHANGED <<stage, worker, storage, nextJob, nextUid, faults, crashes, spent, deploy, probe>>

(***************************************************************************)
(* Retry policy of the worker service.                                     *)
(***************************************************************************)
Pow2(n) == IF n <= 0 THEN 1 ELSE IF n = 1 THEN 2 ELSE IF n = 2 THEN 4 ELSE 8

\* a backoff that does not grow
BackoffDelay_constant(attempt) == RETRY_DELAY_MS

\* processImageTaskWithRetry: delay before the attempt after `attempt`
BackoffDelay(attempt) == RETRY_DELAY_MS * Pow2(attempt - 1)

\* saveImageMetadataWithRetry: delay before the attempt after `attempt`
SaveRetryDelay(attempt) == RETRY_DELAY_MS

\* a retry that gives up one failure later
OuterExhausted_late(attempt) == attempt = MAX_RETRIES + 1

\* attempt === retries, in processImageTaskWithRetry
OuterExhausted(attempt) == attempt = MAX_RETRIES

\* one insert attempt too many
InnerExhausted_late(attempt) == attempt = MAX_RETRIES + 1

\* attempt === retries, in saveImageMetadataWithRetry
InnerExhausted(attempt) == attempt = MAX_RETRIES

\* a catch that puts the failed task back on its queue
OnTaskError_requeue(r, elem) == RPush(r, IMAGE_TASK_QUEUE, elem)

\* the catch of the worker loop: the failed task is only logged
OnTaskError(r, elem) == r

(***************************************************************************)
(* Worker service.                                                         *)
(***************************************************************************)
WorkerIdle ==
  [pc |-> "pop", task |-> NoObject, uid |-> 0, attempt |-> 0, iattempt |-> 0,
   mimeType |-> Undefined, size |-> Undefined, storagePath |-> Undefined,
   sleeps |-> <<>>, nDownload |-> 0, nUpload |-> 0, nInsert |-> 0, result |-> "none",
   exit |-> "none", wait |-> 0]

\* the worker processes of the deployment
Deployed == 1..deploy.workers

\* a loop that pops again while the task it took is in a retry sleep
ReadyToPop_eager(wr) == wr.pc \in {"pop", "sleepOuter"}

\* the worker loop is at its blPop: the await of the previous task returned
ReadyToPop(wr) == wr.pc = "pop"

Holding(w) == worker[w].pc \in {"download", "upload", "insert", "sleepInner", "sleepOuter"}

\* a catch that swallows the last error and returns normally
OuterCatch_swallow(wr) ==
  IF OuterExhausted(wr.attempt)
  THEN [wr EXCEPT !.pc = "done", !.result = "success"]
  ELSE [wr EXCEPT !.pc = "sleepOuter",
                  !.sleeps = Append(@, <<"outer", wr.attempt, RETRY_DELAY_MS * Pow2(wr.attempt - 1)>>)]

\* an attempt of processImageTask threw: the catch of processImageTaskWithRetry
OuterCatch(wr) ==
  IF OuterExhausted(wr.attempt)
  THEN [wr EXCEPT !.pc = "done", !.result = "failed"]
  ELSE [wr EXCEPT !.pc = "sleepOuter",
                  !.sleeps = Append(@, <<"outer", wr.attempt, BackoffDelay(wr.attempt)>>)]

AttemptFailed(w, wr) ==
  LET after == OuterCatch(wr)
  IN  /\ worker' = [worker EXCEPT ![w] = after]
      /\ redis' = IF after.pc = "done"
                  THEN OnTaskError(redis, Element(wr.uid, JSONStringify(wr.task)))
                  ELSE redis
      /\ hist' = IF after.pc = "done"
                 THEN [hist EXCEPT ![wr.uid].status = IF after.result = "success" THEN "ok" ELSE "failed",
                                   ![wr.uid].attempts = wr.attempt]
                 ELSE hist

WPop(w) ==
  /\ ReadyToPop(worker[w])
  /\ redis[IMAGE_TASK_QUEUE] # <<>>
  /\ Parsable(BLPopElement(redis[IMAGE_TASK_QUEUE]).text)
  /\ LET elem == BLPopElement(redis[IMAGE_TASK_QUEUE])
     IN  /\ redis' = [redis EXCEPT ![IMAGE_TASK_QUEUE] = BLPopRest(@)]
         /\ worker' = [worker EXCEPT ![w] =
                         [WorkerIdle EXCEPT !.pc = "download", !.task = JSONParse(elem.text),
                                            !.uid = elem.uid, !.attempt = 1]]
         /\ hist' = [hist EXCEPT ![elem.uid].pops = @ + 1, ![elem.uid].status = "held",
                                 ![elem.uid].worker = w,
                                 ![elem.uid].key = StoragePath(MINIO_BUCKET, ObjectName(JSONParse(elem.text)))]
  /\ UNCHANGED <<stage, storage, catalog, nextJob, nextUid, faults, crashes, spent, deploy, probe>>

WDownloadOk(w) ==
  /\ worker[w].pc = "download"
  /\ LET wr == worker[w]
         got == DownloadFile(wr.task)
     IN  worker' = [worker EXCEPT ![w] =
                      [wr EXCEPT !.pc = "upload", !.nDownload = @ + 1,
                                 !.mimeType = EffectiveMimeType(wr.task, got.mimeType),
                                 !.size = EffectiveSize(wr.task, got.size)]]
  /\ UNCHANGED <<redis, stage, storage, catalog, nextJob, nextUid, hist, faults, crashes, spent, deploy, probe>>

WDownloadFail(w) ==
  /\ worker[w].pc = "download"
  /\ CanFault
  /\ faults' = faults + 1
  /\ spent' = spent + 1
  /\ AttemptFailed(w, [worker[w] EXCEPT !.nDownload = @ + 1])
  /\ UNCHANGED <<stage, storage, catalog, nextJob, nextUid, crashes, deploy, probe>>

WUploadOk(w) ==
  /\ worker[w].pc = "upload"
  /\ LET wr == worker[w]
         objectName == ObjectName(wr.task)
     IN  /\ storage' = PutObject(storage, objectName, wr.mimeType)
         /\ worker' = [worker EXCEPT ![w] =
                         [wr EXCEPT !.pc = "insert", !.nUpload = @ + 1, !.iattempt = 1,
                                    !.storagePath = StoragePath(MINIO_BUCKET, objectName)]]
  /\ UNCHANGED <<redis, stage, catalog, nextJob, nextUid, hist, faults, crashes, spent, deploy, probe>>

WUploadFail(w) ==
  /\ worker[w].pc = "upload"
  /\ CanFault
  /\ faults' = faults + 1
  /\ spent' = spent + 1
  /\ AttemptFailed(w, [worker[w] EXCEPT !.nUpload = @ + 1])
  /\ UNCHANGED <<stage, storage, catalog, nextJob, nextUid, crashes, deploy, probe>>

WInsertOk(w) ==
  /\ worker[w].pc = "insert"
  /\ LET wr == worker[w]
         row == ImageData(wr.task, wr.size, wr.mimeType, wr.storagePath)
     IN  /\ ~UniqueViolation(catalog, row)
         /\ catalog' = InsertRow(catalog, row)
         /\ worker' = [worker EXCEPT ![w] =
                         [wr EXCEPT !.pc = "done", !.nInsert = @ + 1, !.result = "success"]]
         /\ hist' = [hist EXCEPT ![wr.uid].inserted = @ + 1, ![wr.uid].status = "ok",
                                 ![wr.uid].attempts = wr.attempt,
                                 ![wr.uid].row = Len(catalog) + 1]
  /\ UNCHANGED <<redis, stage, storage, nextJob, nextUid, faults, crashes, spent, deploy, probe>>

\* the INSERT threw: the catch of saveImageMetadataWithRetry
InsertThrew(w) ==
  LET wr == [worker[w] EXCEPT !.nInsert = @ + 1]
  IN  IF InnerExhausted(wr.iattempt)
      THEN AttemptFailed(w, wr)
      ELSE /\ worker' = [worker EXCEPT ![w] =
                           [wr EXCEPT !.pc = "sleepInner",
                                      !.sleeps = Append(@, <<"inner", wr.iattempt, SaveRetryDelay(wr.iattempt)>>)]]
           /\ UNCHANGED <<redis, hist>>

WInsertRejected(w) ==
  /\ worker[w].pc = "insert"
  /\ LET wr == worker[w]
     IN  UniqueViolation(catalog, ImageData(wr.task, wr.size, wr.mimeType, wr.storagePath))
  /\ InsertThrew(w)
  /\ UNCHANGED <<stage, storage, catalog, nextJob, nextUid, faults, crashes, spent, deploy, probe>>

WInsertFail(w) ==
  /\ worker[w].pc = "insert"
  /\ CanFault
  /\ faults' = faults + 1
  /\ spent' = spent + 1
  /\ InsertThrew(w)
  /\ UNCHANGED <<stage, storage, catalog, nextJob, nextUid, crashes, deploy, probe>>

WSleepInnerDone(w) ==
  /\ worker[w].pc = "sleepInner"
  /\ worker' = [worker EXCEPT ![w].pc = "insert", ![w].iattempt = @ + 1]
  /\ UNCHANGED <<redis, stage, storage, catalog, nextJob, nextUid, hist, faults, crashes, spent, deploy, probe>>

\* a retry that resumes at the step that failed
NextAttempt_resume(wr) ==
  [wr EXCEPT !.pc = IF wr.nInsert > 0 THEN "insert" ELSE "download",
             !.attempt = @ + 1, !.iattempt = IF wr.nInsert > 0 THEN 1 ELSE 0]

\* the next iteration of processImageTaskWithRetry calls processImageTask anew
NextAttempt(wr) == [wr EXCEPT !.pc = "download", !.attempt = @ + 1, !.iattempt = 0]

WSleepOuterDone(w) ==
  /\ worker[w].pc = "sleepOuter"
  /\ worker' = [worker EXCEPT ![w] = NextAttempt(worker[w])]
  /\ UNCHANGED <<redis, stage, storage, catalog, nextJob, nextUid, hist, faults, crashes, spent, deploy, probe>>

\* back to blPop after the task's success or terminal failure was logged
\* a loop whose catch lets the terminal failure of a task end the process
AfterTask_rethrow(wr) ==
  IF wr.result = "failed" THEN [WorkerIdle EXCEPT !.pc = "exited", !.exit = "error"] ELSE WorkerIdle

\* the try of the worker loop ends, by success or by the logging catch
AfterTask(wr) == WorkerIdle

WLoop(w) ==
  /\ worker[w].pc = "done"
  /\ worker' = [worker EXCEPT ![w] = AfterTask(worker[w])]
  /\ UNCHANGED <<redis, stage, storage, catalog, nextJob, nextUid, hist, faults, crashes, spent, deploy, probe>>

WCrash(w) ==
  /\ Holding(w)
  /\ CanCrash
  /\ crashes' = crashes + 1
  /\ spent' = spent + 2
  /\ worker' = [worker EXCEPT ![w] = Killed(WorkerIdle)]
  /\ hist' = [hist EXCEPT ![worker[w].uid].status = "lost", ![worker[w].uid].exit = "kill"]
  /\ UNCHANGED <<redis, stage, storage, catalog, nextJob, nextUid, faults, deploy, probe>>

WRestart(w) ==
  /\ worker[w].pc = "exited"
  /\ worker' = [worker EXCEPT ![w] = [WorkerIdle EXCEPT !.pc = "connect"]]
  /\ UNCHANGED <<redis, stage, storage, catalog, nextJob, nextUid, hist, faults, crashes, spent, deploy, probe>>

WConnectOk(w) ==
  /\ worker[w].pc = "connect"
  /\ worker' = [worker EXCEPT ![w] = WorkerIdle]
  /\ UNCHANGED <<redis, stage, storage, catalog, nextJob, nextUid, hist, faults, crashes, spent, deploy, probe>>

WConnectFail(w) ==
  /\ worker[w].pc = "connect"
  /\ CanFault
  /\ faults' = faults + 1
  /\ spent' = spent + 1
  /\ worker' = [worker EXCEPT ![w] = ConnectFailed(WorkerIdle)]
  /\ UNCHANGED <<redis, stage, storage, catalog, nextJob, nextUid, hist, crashes, deploy, probe>>

WPopFail(w) ==
  /\ worker[w].pc = "pop"
  /\ CanFault
  /\ faults' = faults + 1
  /\ spent' = spent + 1
  /\ worker' = [worker EXCEPT ![w] = LoopCatch(worker[w])]
  /\ UNCHANGED <<redis, stage, storage, catalog, nextJob, nextUid, hist, crashes, deploy, probe>>

WBackoffDone(w) ==
  /\ worker[w].pc = "backoff"
  /\ worker' = [worker EXCEPT ![w] = WorkerIdle]
  /\ UNCHANGED <<redis, stage, storage, catalog, nextJob, nextUid, hist, faults, crashes, spent, deploy, probe>>

WPopTimeout(w) ==
  /\ ReadyToPop(worker[w])
  /\ redis[IMAGE_TASK_QUEUE] = <<>>
  /\ CanFault
  /\ spent' = spent + 1
  /\ worker' = [worker EXCEPT ![w] = OnTimeout(worker[w])]
  /\ UNCHANGED <<redis, stage, storage, catalog, nextJob, nextUid, hist, faults, crashes, deploy, probe>>

WSignal(w) ==
  /\ HandlersRegistered(worker[w])
  /\ CanCrash
  /\ crashes' = crashes + 1
  /\ spent' = spent + 2
  /\ worker' = [worker EXCEPT ![w] = SignalHandler(WorkerIdle)]
  /\ hist' = IF Holding(w)
             THEN [hist EXCEPT ![worker[w].uid].status = "lost", ![worker[w].uid].exit = "signal"]
             ELSE hist
  /\ UNCHANGED <<redis, stage, storage, catalog, nextJob, nextUid, faults, deploy, probe>>

(***************************************************************************)
(* Specification.                                                          *)
(***************************************************************************)
Init ==
  /\ redis = [q \in QueueNames |-> <<>>]
  /\ stage = StageIdle
  /\ worker = [w \in Workers |-> WorkerIdle]
  /\ storage = <<>>
  /\ catalog = <<>>
  /\ nextJob = 1
  /\ nextUid = 1
  /\ hist = <<>>
  /\ faults = 0
  /\ crashes = 0
  /\ spent = 0
  /\ deploy \in [queueWorker : BOOLEAN, workers : 1..NumWorkers]
  /\ probe = NoProbe

Next ==
  \/ \E folder \in Folders, source \in {"google_drive", "dropbox"} : ImportRequest(folder, source)
  \/ \E folder \in Folders, source \in {"google_drive", "dropbox"} : GatewayImportRequest(folder, source)
  \/ StartQueueWorker
  \/ ImpPop
  \/ ImpListOk
  \/ ImpListFail
  \/ ImpPush
  \/ ImpPushFail
  \/ ImpCrash
  \/ ImpRestart
  \/ ImpConnectOk
  \/ ImpConnectFail
  \/ ImpPopFail
  \/ ImpBackoffDone
  \/ ImpSignal
  \/ ImpPopTimeout
  \/ \E w \in Deployed : WPop(w)
  \/ \E w \in Deployed : WDownloadOk(w)
  \/ \E w \in Deployed : WDownloadFail(w)
  \/ \E w \in Deployed : WUploadOk(w)
  \/ \E w \in Deployed : WUploadFail(w)
  \/ \E w \in Deployed : WInsertOk(w)
  \/ \E w \in Deployed : WInsertRejected(w)
  \/ \E w \in Deployed : WInsertFail(w)
  \/ \E w \in Deployed : WSleepInnerDone(w)
  \/ \E w \in Deployed : WSleepOuterDone(w)
  \/ \E w \in Deployed : WLoop(w)
  \/ \E w \in Deployed : WCrash(w)
  \/ \E w \in Deployed : WRestart(w)
  \/ \E w \in Deployed : WConnectOk(w)
  \/ \E w \in Deployed : WConnectFail(w)
  \/ \E w \in Deployed : WPopFail(w)
  \/ \E w \in Deployed : WBackoffDone(w)
  \/ \E w \in Deployed : WSignal(w)
  \/ \E w \in Deployed : WPopTimeout(w)

Spec == Init /\ [][Next]_vars

\* a step of the process of worker w itself (not its termination or restart)
WorkerRuns(w) ==
  \/ WPop(w) \/ WDownloadOk(w) \/ WDownloadFail(w) \/ WUploadOk(w) \/ WUploadFail(w)
  \/ WInsertOk(w) \/ WInsertRejected(w) \/ WInsertFail(w)
  \/ WSleepInnerDone(w) \/ WSleepOuterDone(w) \/ WLoop(w)
  \/ WConnectOk(w) \/ WConnectFail(w) \/ WPopFail(w) \/ WBackoffDone(w)

(***************************************************************************)
(* The worker service on its own: the google_drive job of folder F1 has    *)
(* been expanded and its tasks wait on the task queue.  Every worker       *)
(* process that can take a step of its own eventually takes one; failures, *)
(* kills, signals and restarts happen or not.                              *)
(***************************************************************************)
\* environment events left to the workers
WorkerEvents == 3

ExpandedJob == JobData(1, "F1", "google_drive")

ExpandedTasks ==
  [i \in DOMAIN ListFiles(ExpandedJob) |-> ImageTask(ExpandedJob, ListFiles(ExpandedJob)[i])]

InitWorkers ==
  /\ redis = [q \in QueueNames |->
               IF q = IMAGE_TASK_QUEUE
               THEN [i \in DOMAIN ExpandedTasks |-> Element(i + 1, JSONStringify(ExpandedTasks[i]))]
               ELSE <<>>]
  /\ stage = StageIdle
  /\ worker = [w \in Workers |-> WorkerIdle]
  /\ storage = <<>>
  /\ catalog = <<>>
  /\ nextJob = 2
  /\ nextUid = Len(ExpandedTasks) + 2
  /\ hist = [u \in 1..(Len(ExpandedTasks) + 1) |->
               IF u = 1
               THEN [NewHist("job", 0) EXCEPT !.sent = ExpandedJob, !.pops = 1, !.status = "ok",
                                              !.listed = Len(ExpandedTasks),
                                              !.pushed = Len(ExpandedTasks)]
               ELSE [NewHist("task", 1) EXCEPT !.sent = ExpandedTasks[u - 1]]]
  /\ faults = 0
  /\ crashes = 0
  /\ spent = MaxEvents - WorkerEvents
  /\ deploy \in [queueWorker : {FALSE}, workers : 1..NumWorkers]
  /\ probe = NoProbe

NextWorkers ==
  \/ \E w \in Deployed : WorkerRuns(w)
  \/ \E w \in Deployed : WCrash(w)
  \/ \E w \in Deployed : WSignal(w)
  \/ \E w \in Deployed : WRestart(w)

SpecWorkers ==
  /\ InitWorkers
  /\ [][NextWorkers]_vars
  /\ \A w \in Workers : WF_vars(w \in Deployed /\ WorkerRuns(w))

TypeOK ==
  /\ faults \in 0..MaxEvents
  /\ crashes \in 0..MaxCrashes
  /\ \A w \in Workers : worker[w].attempt \in 0..MAX_RETRIES

(***************************************************************************)
(* The metadata rules of processImageTask applied on their own: the task's *)
(* mime_type and file_size and the provider's mimeType and size are drawn  *)
(* from the sets below.                                                    *)
(***************************************************************************)
TaskMimeTypes ==
  {Undefined, Null, Str(<<>>), Str(<<"image/", "png">>), Str(<<"text/", "plain">>)}

ProviderMimeTypes ==
  {Undefined, Str(<<>>), Str(<<"image/", "jpeg">>), Str(<<"image/">>),
   Str(<<"application/", "octet-stream">>)}

TaskFileSizes == {Undefined, Null, Num(0), Num(-1), Num(5)}

ProviderSizes == {Num(0), Num(9)}

ProbeTask(pr) == << <<"mime_type", pr.mime_type>>, <<"file_size", pr.file_size>> >>

InitResolve ==
  /\ redis = [q \in QueueNames |-> <<>>]
  /\ stage = StageIdle
  /\ worker = [w \in Workers |-> WorkerIdle]
  /\ storage = <<>>
  /\ catalog = <<>>
  /\ nextJob = 1
  /\ nextUid = 1
  /\ hist = <<>>
  /\ faults = 0
  /\ crashes = 0
  /\ spent = 0
  /\ deploy = [queueWorker |-> FALSE, workers |-> 1]
  /\ probe \in [phase : {"task"}, mime_type : TaskMimeTypes, file_size : TaskFileSizes,
                 got : [mimeType : ProviderMimeTypes, size : ProviderSizes],
                 mimeType : {Undefined}, size : {Undefined}]

ResolveMimeType ==
  /\ probe.phase \in {"task", "size"}
  /\ probe' = [probe EXCEPT !.phase = IF @ = "task" THEN "mime" ELSE "both",
                            !.mimeType = EffectiveMimeType(ProbeTask(probe), probe.got.mimeType)]
  /\ UNCHANGED <<redis, stage, worker, storage, catalog, nextJob, nextUid, hist, faults, crashes,
                 spent, deploy>>

ResolveSize ==
  /\ probe.phase \in {"task", "mime"}
  /\ probe' = [probe EXCEPT !.phase = IF @ = "task" THEN "size" ELSE "both",
                            !.size = EffectiveSize(ProbeTask(probe), probe.got.size)]
  /\ UNCHANGED <<redis, stage, worker, storage, catalog, nextJob, nextUid, hist, faults, crashes,
                 spent, deploy>>

NextResolve ==
  \/ ResolveMimeType
  \/ ResolveSize

SpecResolve == InitResolve /\ [][NextResolve]_vars

(***************************************************************************)
(* The route POST /import/google-drive on its own, in the three servers of *)
(* the repository: the API service, the API service that takes the queue   *)
(* only when ENABLE_QUEUE_WORKER is 'true', and the API gateway.  The      *)
(* request's folder_url, the state of the Redis connection and the list    *)
(* before the request are drawn from the sets below.  A URL is a sequence  *)
(* of tokens.                                                              *)
(***************************************************************************)
IdTokens == {"F1", "F2"}

FolderUrls ==
  { <<"https://", "drive.google.com/drive", "/folders/", "F1">>,
    <<"https://", "example.com", "?", "id=", "F2">>,
    <<"https://", "example.com", "/folders/", "F1", "?", "id=", "F2">>,
    <<"https://", "example.com", "/x">>,
    <<"not a url">> }

\* body('folder_url').isURL()
IsURL(url) == Len(url) >= 2 /\ url[1] \in {"https://", "http://"}

\* the places where `marker` is followed by an id
MatchesAfter(url, marker) ==
  {i \in 1..(Len(url) - 1) : url[i] = marker /\ url[i + 1] \in IdTokens}

FirstMatch(url, marker) ==
  url[(CHOOSE i \in MatchesAfter(url, marker) : \A j \in MatchesAfter(url, marker) : i <= j) + 1]

DriveMatches(url) ==
  {i \in MatchesAfter(url, "/folders/") : i > 1 /\ url[i - 1] = "drive.google.com/drive"}

ExtractFolderId(url) ==
  IF DriveMatches(url) # {}
  THEN Str(<<url[(CHOOSE i \in DriveMatches(url) : \A j \in DriveMatches(url) : i <= j) + 1]>>)
  ELSE IF MatchesAfter(url, "id=") # {} THEN Str(<<FirstMatch(url, "id=")>>)
  ELSE IF MatchesAfter(url, "/folders/") # {} THEN Str(<<FirstMatch(url, "/folders/")>>)
  ELSE Null

Response(code, status, jobId) == [code |-> code, status |-> status, job_id |-> jobId]

IntakeJobData(n, url) ==
  << <<"job_id", JobId(n)>>, <<"folder_id", ExtractFolderId(url)>>,
     <<"folder_url", Str(url)>>, <<"source", Str(<<"google_drive">>)>> >>

\* the part of the route the three servers share: validation, then `enqueue`
RouteGoogleDrive(queue, enqueue, unqueued) ==
  LET url == probe.url
      answer(r) == probe' = [probe EXCEPT !.phase = "answered", !.response = r,
                                          !.before = redis]
  IN  IF ~IsURL(url) \/ ~Truthy(ExtractFolderId(url))
      THEN /\ answer(Response(400, "error", Undefined))
           /\ UNCHANGED <<redis, nextJob, nextUid>>
      ELSE IF ~enqueue
      THEN /\ answer(Response(200, unqueued, JobId(nextJob)))
           /\ nextJob' = nextJob + 1
           /\ UNCHANGED <<redis, nextUid>>
      ELSE IF ~probe.redisUp
      THEN /\ answer(Response(500, "error", Undefined))
           /\ nextJob' = nextJob + 1
           /\ UNCHANGED <<redis, nextUid>>
      ELSE /\ redis' = RPush(redis, queue,
                             Element(nextUid, JSONStringify(IntakeJobData(nextJob, url))))
           /\ answer(Response(200, "queued", JobId(nextJob)))
           /\ nextJob' = nextJob + 1
           /\ nextUid' = nextUid + 1

ApiImportGoogleDrive ==
  /\ probe.phase = "request" /\ probe.server = "api-service"
  /\ RouteGoogleDrive(FOLDER_IMPORT_QUEUE, TRUE, "queued")
  /\ UNCHANGED <<stage, worker, storage, catalog, hist, faults, crashes, spent, deploy>>

\* useQueue false: processGoogleDriveFolder is started in the background
\* and the route answers at once
ApiQueueOrSyncImportGoogleDrive ==
  /\ probe.phase = "request" /\ probe.server = "api-service-sync"
  /\ RouteGoogleDrive(FOLDER_IMPORT_QUEUE, probe.useQueue, "processing")
  /\ UNCHANGED <<stage, worker, storage, catalog, hist, faults, crashes, spent, deploy>>

GatewayImportGoogleDrive ==
  /\ probe.phase = "request" /\ probe.server = "api-gateway"
  /\ RouteGoogleDrive(IMPORT_QUEUE, TRUE, "queued")
  /\ UNCHANGED <<stage, worker, storage, catalog, hist, faults, crashes, spent, deploy>>

QueuedBefore ==
  { <<>>, <<Element(1, JSONStringify(JobData(1, "F2", "dropbox")))>> }

InitIntake ==
  /\ redis \in {[q \in QueueNames |-> IF q = FOLDER_IMPORT_QUEUE THEN l ELSE <<>>] : l \in QueuedBefore}
  /\ stage = StageIdle
  /\ worker = [w \in Workers |-> WorkerIdle]
  /\ storage = <<>>
  /\ catalog = <<>>
  /\ nextJob = 2
  /\ nextUid = 2
  /\ hist = <<>>
  /\ faults = 0
  /\ crashes = 0
  /\ spent = 0
  /\ deploy = [queueWorker |-> FALSE, workers |-> 1]
  /\ probe \in [phase : {"request"}, server : {"api-service", "api-service-sync", "api-gateway"},
                 url : FolderUrls, useQueue : BOOLEAN, redisUp : BOOLEAN,
                 response : {Response(0, "none", Undefined)}, before : {<<>>}]

NextIntake ==
  \/ ApiImportGoogleDrive
  \/ ApiQueueOrSyncImportGoogleDrive
  \/ GatewayImportGoogleDrive

SpecIntake == InitIntake /\ [][NextIntake]_vars

(***************************************************************************)
(* The storage key of processImageTask on its own, for two tasks whose     *)
(* source, file_id and file_name are drawn from the sets below.  A Dropbox *)
(* file id is what follows https://www.dropbox.com/s/ in the link the      *)
(* worker downloads: a link key, a slash and a file name.                  *)
(***************************************************************************)
KeySources == {Str(<<"google_drive">>), Str(<<"dropbox">>)}

KeyFileIds == {Str(<<"k">>), Str(<<"j">>), Str(<<"k", "/", "a">>)}

KeyFileNames == {Str(<<"a">>), Str(<<"b">>), Str(<<"a", "/", "b">>)}

KeyTasks == [source : KeySources, file_id : KeyFileIds, file_name : KeyFileNames]

KeyTask(t) ==
  << <<"file_id", t.file_id>>, <<"file_name", t.file_name>>, <<"source", t.source>> >>

InitKey ==
  /\ redis = [q \in QueueNames |-> <<>>]
  /\ stage = StageIdle
  /\ worker = [w \in Workers |-> WorkerIdle]
  /\ storage = <<>>
  /\ catalog = <<>>
  /\ nextJob = 1
  /\ nextUid = 1
  /\ hist = <<>>
  /\ faults = 0
  /\ crashes = 0
  /\ spent = 0
  /\ deploy = [queueWorker |-> FALSE, workers |-> NumWorkers]
  /\ probe \in [phase : {"tasks"}, task : [Workers -> KeyTasks],
                 objectName : {[w \in Workers |-> Undefined]},
                 storagePath : {[w \in Workers |-> Undefined]}]

\* worker w computes objectName and uploadFile returns the storage path
ResolveKey(w) ==
  /\ probe.objectName[w] = Undefined
  /\ LET objectName == ObjectName(KeyTask(probe.task[w]))
     IN  probe' = [probe EXCEPT !.phase = "keys",
                                !.objectName[w] = objectName,
                                !.storagePath[w] = StoragePath(MINIO_BUCKET, objectName)]
  /\ UNCHANGED <<redis, stage, worker, storage, catalog, nextJob, nextUid, hist, faults, crashes,
                 spent, deploy>>

NextKey == \E w \in Workers : ResolveKey(w)

SpecKey == InitKey /\ [][NextKey]_vars

(***************************************************************************)
(* The record of processImageTask on its own: each worker holds a task of  *)
(* either source, past its download and upload, and saves its record.      *)
(***************************************************************************)
InitRecord ==
  /\ redis = [q \in QueueNames |-> <<>>]
  /\ stage = StageIdle
  /\ worker = [w \in Workers |-> WorkerIdle]
  /\ storage = <<>>
  /\ catalog = <<>>
  /\ nextJob = 1
  /\ nextUid = 1
  /\ hist = <<>>
  /\ faults = 0
  /\ crashes = 0
  /\ spent = 0
  /\ deploy = [queueWorker |-> FALSE, workers |-> NumWorkers]
  /\ probe \in [phase : {"record"}, task : [Workers -> KeyTasks],
                 row : {[w \in Workers |-> 0]}, rejected : {[w \in Workers |-> FALSE]}]

\* worker w builds imageData and the INSERT returns the new row
SaveRecord(w) ==
  /\ probe.row[w] = 0 /\ ~probe.rejected[w]
  /\ LET task == KeyTask(probe.task[w])
         row == ImageData(task, Num(100), Str(<<"image/", "jpeg">>),
                          StoragePath(MINIO_BUCKET, ObjectName(task)))
     IN  /\ ~UniqueViolation(catalog, row)
         /\ catalog' = InsertRow(catalog, row)
         /\ probe' = [probe EXCEPT !.row[w] = Len(catalog) + 1]
  /\ UNCHANGED <<redis, stage, worker, storage, nextJob, nextUid, hist, faults, crashes,
                 spent, deploy>>

\* the INSERT of worker w is rejected by UNIQUE(storage_path)
SaveRejected(w) ==
  /\ probe.row[w] = 0 /\ ~probe.rejected[w]
  /\ LET task == KeyTask(probe.task[w])
     IN  UniqueViolation(catalog, ImageData(task, Num(100), Str(<<"image/", "jpeg">>),
                                            StoragePath(MINIO_BUCKET, ObjectName(task))))
  /\ probe' = [probe EXCEPT !.rejected[w] = TRUE]
  /\ UNCHANGED <<redis, stage, worker, storage, catalog, nextJob, nextUid, hist, faults, crashes,
                 spent, deploy>>

NextRecord ==
  \/ \E w \in Workers : SaveRecord(w)
  \/ \E w \in Workers : SaveRejected(w)

SpecRecord == InitRecord /\ [][NextRecord]_vars

(***************************************************************************)
(* The mime type of one file along the pipeline: the provider lists the    *)
(* file with any mimeType, the import service filters the listing and      *)
(* builds the task, the download reports any mimeType, and the worker      *)
(* resolves the mime type of the record.                                   *)
(***************************************************************************)
ListedMimeTypes ==
  {Undefined, Null, Str(<<>>), Str(<<"image/">>), Str(<<"image/", "png">>),
   Str(<<"text/", "plain">>), Str(<<"application/", "image/">>)}

ListedFile(mimeType, size) ==
  << <<"id", Str(<<"a">>)>>, <<"name", Str(<<"x.jpg">>)>>,
     <<"mimeType", mimeType>>, <<"size", size>> >>

InitMime ==
  /\ redis = [q \in QueueNames |-> <<>>]
  /\ stage = StageIdle
  /\ worker = [w \in Workers |-> WorkerIdle]
  /\ storage = <<>>
  /\ catalog = <<>>
  /\ nextJob = 1
  /\ nextUid = 1
  /\ hist = <<>>
  /\ faults = 0
  /\ crashes = 0
  /\ spent = 0
  /\ deploy = [queueWorker |-> FALSE, workers |-> 1]
  /\ probe \in [phase : {"listed"}, mimeType : ListedMimeTypes, size : {Undefined, NumStr(100)},
                 got : ProviderMimeTypes, task : {NoObject}, resolved : {Undefined}]

\* listFilesInFolder filters the listing; processFolderJob builds the task
ExpandFile ==
  /\ probe.phase = "listed"
  /\ LET files == SelectSeq(<<ListedFile(probe.mimeType, probe.size)>>, IsImageFile)
     IN  probe' = IF files = <<>>
                  THEN [probe EXCEPT !.phase = "filtered"]
                  ELSE [probe EXCEPT !.phase = "task",
                                     !.task = JSONParse(JSONStringify(ImageTask(ExpandedJob, files[1])))]
  /\ UNCHANGED <<redis, stage, worker, storage, catalog, nextJob, nextUid, hist, faults, crashes,
                 spent, deploy>>

\* processImageTask: the mime type rule after the download
ResolveTaskMime ==
  /\ probe.phase = "task"
  /\ probe' = [probe EXCEPT !.phase = "record",
                            !.resolved = EffectiveMimeType(probe.task, probe.got)]
  /\ UNCHANGED <<redis, stage, worker, storage, catalog, nextJob, nextUid, hist, faults, crashes,
                 spent, deploy>>

NextMime ==
  \/ ExpandFile
  \/ ResolveTaskMime

SpecMime == InitMime /\ [][NextMime]_vars

(***************************************************************************)
(* The two consumers with elements on their lists that hold no job and no  *)
(* task, pushed by some other client of the Redis server: one on the job   *)
(* queue, before or after the job of folder F1, and one at the head of the *)
(* task queue.  No failure and no termination happens.                     *)
(***************************************************************************)
ImpPopMalformed ==
  /\ StageReady(stage)
  /\ redis[FOLDER_IMPORT_QUEUE] # <<>>
  /\ LET elem == BLPopElement(redis[FOLDER_IMPORT_QUEUE])
     IN  /\ ~Parsable(elem.text)
         /\ redis' = [redis EXCEPT ![FOLDER_IMPORT_QUEUE] = BLPopRest(@)]
         /\ stage' = LoopCatch(StageIdle)
         /\ hist' = [hist EXCEPT ![elem.uid].pops = @ + 1, ![elem.uid].status = "dropped"]
  /\ UNCHANGED <<worker, storage, catalog, nextJob, nextUid, faults, crashes, spent, deploy, probe>>

WPopMalformed(w) ==
  /\ ReadyToPop(worker[w])
  /\ redis[IMAGE_TASK_QUEUE] # <<>>
  /\ LET elem == BLPopElement(redis[IMAGE_TASK_QUEUE])
     IN  /\ ~Parsable(elem.text)
         /\ redis' = [redis EXCEPT ![IMAGE_TASK_QUEUE] = BLPopRest(@)]
         /\ worker' = [worker EXCEPT ![w] = LoopCatch(WorkerIdle)]
         /\ hist' = [hist EXCEPT ![elem.uid].pops = @ + 1, ![elem.uid].status = "dropped",
                                 ![elem.uid].worker = w]
  /\ UNCHANGED <<stage, storage, catalog, nextJob, nextUid, faults, crashes, spent, deploy, probe>>

InitMalformed ==
  /\ probe \in [phase : {"malformed"}, first : {"raw", "job"}]
  /\ \E rj \in RawTexts, rt \in RawTexts :
       LET raw == <<Element(1, rj)>>
           job == <<Element(2, JSONStringify(ExpandedJob))>>
       IN  redis = [q \in QueueNames |->
                     IF q = FOLDER_IMPORT_QUEUE
                     THEN IF probe.first = "raw" THEN raw \o job ELSE job \o raw
                     ELSE IF q = IMAGE_TASK_QUEUE THEN <<Element(3, rt)>> ELSE <<>>]
  /\ stage = StageIdle
  /\ worker = [w \in Workers |-> WorkerIdle]
  /\ storage = <<>>
  /\ catalog = <<>>
  /\ nextJob = 2
  /\ nextUid = 4
  /\ hist = [u \in 1..3 |->
               IF u = 2 THEN [NewHist("job", 0) EXCEPT !.sent = ExpandedJob]
               ELSE NewHist("foreign", 0)]
  /\ faults = 0
  /\ crashes = 0
  /\ spent = MaxEvents
  /\ deploy \in [queueWorker : {FALSE}, workers : 1..NumWorkers]

NextMalformed ==
  \/ ImpPop
  \/ ImpPopMalformed
  \/ ImpListOk
  \/ ImpPush
  \/ ImpBackoffDone
  \/ \E w \in Deployed : WPop(w)
  \/ \E w \in Deployed : WPopMalformed(w)
  \/ \E w \in Deployed : WDownloadOk(w)
  \/ \E w \in Deployed : WUploadOk(w)
  \/ \E w \in Deployed : WInsertOk(w)
  \/ \E w \in Deployed : WLoop(w)
  \/ \E w \in Deployed : WBackoffDone(w)

SpecMalformed == InitMalformed /\ [][NextMalformed]_vars

(***************************************************************************)
(* The import without a queue: processGoogleDriveFolder of the API service *)
(* that runs with ENABLE_QUEUE_WORKER unset.  It lists the folder and, for *)
(* each file in turn, reads the metadata (defaults when the read fails)    *)
(* and inserts a row whose storage path is the Drive link of the file.     *)
(* The table may hold the rows of an earlier import of the folder; an      *)
(* INSERT may also fail for any other reason.                              *)
(***************************************************************************)
SyncStoragePath(file) ==
  Str(<<"https://drive.google.com/file/d/">> \o ToStr(Prop(file, "id")) \o <<"/view">>)

\* getFileMetadata: the metadata of the file, or the defaults in its catch
GetFileMetadata(file, ok) ==
  IF ok
  THEN [mimeType |-> Or(Prop(file, "mimeType"), Str(<<"image/", "jpeg">>)),
        size |-> Or(ParseInt(Prop(file, "size")), Num(0))]
  ELSE [mimeType |-> Str(<<"image/", "jpeg">>), size |-> Num(0)]

SyncImageData(file, metadata) ==
  [name |-> Prop(file, "name"),
   google_drive_id |-> Prop(file, "id"),
   dropbox_id |-> Null,
   size |-> Or(metadata.size, Or(Prop(file, "size"), Num(0))),
   mime_type |-> Or(metadata.mimeType, Or(Prop(file, "mimeType"), Str(<<"image/", "jpeg">>))),
   storage_path |-> SyncStoragePath(file),
   source |-> Str(<<"google_drive">>)]

\* the image files of the folders, and the rows that earlier imports left
\* in the table for those of them whose position is in the set kept
KnownFiles == ListFilesInFolder(Str(<<"F1">>)) \o ListFilesInFolder(Str(<<"F2">>))

EarlierImport(kept) ==
  LET Rows[i \in 0..Len(KnownFiles)] ==
        IF i = 0 THEN <<>>
        ELSE IF i \in kept
             THEN InsertRow(Rows[i - 1],
                            SyncImageData(KnownFiles[i], GetFileMetadata(KnownFiles[i], TRUE)))
             ELSE Rows[i - 1]
  IN  Rows[Len(KnownFiles)]

\* a catch that gives up the folder at the first file that fails
SyncCatch_abort(pr) ==
  [pr EXCEPT !.errorCount = @ + 1, !.attempted = Append(@, Prop(pr.files[pr.idx], "id")),
             !.idx = Len(pr.files) + 1]

\* the catch inside the for loop: the error is logged and counted
SyncCatch(pr) ==
  [pr EXCEPT !.errorCount = @ + 1, !.attempted = Append(@, Prop(pr.files[pr.idx], "id")),
             !.idx = @ + 1]

InitSync ==
  /\ redis = [q \in QueueNames |-> <<>>]
  /\ stage = StageIdle
  /\ worker = [w \in Workers |-> WorkerIdle]
  /\ storage = <<>>
  /\ nextJob = 1
  /\ nextUid = 1
  /\ hist = <<>>
  /\ faults = 0
  /\ crashes = 0
  /\ spent = 0
  /\ deploy = [queueWorker |-> FALSE, workers |-> 1]
  /\ \E folder \in Folders :
       \E kept \in SUBSET (1..Len(KnownFiles)) :
         /\ catalog = EarlierImport(kept)
         /\ probe = [phase |-> "called", folderId |-> Str(<<folder>>), files |-> <<>>, idx |-> 0,
                     successCount |-> 0, errorCount |-> 0, attempted |-> <<>>,
                     before |-> Cardinality(kept), result |-> NoObject]

SyncList ==
  /\ probe.phase = "called"
  /\ probe' = [probe EXCEPT !.phase = "loop", !.files = ListFilesInFolder(probe.folderId),
                            !.idx = 1]
  /\ UNCHANGED <<redis, stage, worker, storage, catalog, nextJob, nextUid, hist, faults, crashes,
                 spent, deploy>>

\* listFilesInFolder throws: processGoogleDriveFolder rejects
SyncListFail ==
  /\ probe.phase = "called"
  /\ probe' = [probe EXCEPT !.phase = "rejected"]
  /\ UNCHANGED <<redis, stage, worker, storage, catalog, nextJob, nextUid, hist, faults, crashes,
                 spent, deploy>>

SyncFileOk(metaOk) ==
  /\ probe.phase = "loop" /\ probe.idx <= Len(probe.files)
  /\ LET file == probe.files[probe.idx]
         row == SyncImageData(file, GetFileMetadata(file, metaOk))
     IN  /\ ~UniqueViolation(catalog, row)
         /\ ~NotNullViolation(row)
         /\ catalog' = InsertRow(catalog, row)
         /\ probe' = [probe EXCEPT !.successCount = @ + 1,
                                   !.attempted = Append(@, Prop(file, "id")),
                                   !.idx = @ + 1]
  /\ UNCHANGED <<redis, stage, worker, storage, nextJob, nextUid, hist, faults, crashes,
                 spent, deploy>>

\* the INSERT is rejected: the row of an earlier import has the storage path
SyncFileRejected(metaOk) ==
  /\ probe.phase = "loop" /\ probe.idx <= Len(probe.files)
  /\ LET file == probe.files[probe.idx]
         row == SyncImageData(file, GetFileMetadata(file, metaOk))
     IN  UniqueViolation(catalog, row) \/ NotNullViolation(row)
  /\ probe' = SyncCatch(probe)
  /\ UNCHANGED <<redis, stage, worker, storage, catalog, nextJob, nextUid, hist, faults, crashes,
                 spent, deploy>>

\* the INSERT fails for another reason (the database cannot be reached)
SyncFileFail ==
  /\ probe.phase = "loop" /\ probe.idx <= Len(probe.files)
  /\ probe' = SyncCatch(probe)
  /\ UNCHANGED <<redis, stage, worker, storage, catalog, nextJob, nextUid, hist, faults, crashes,
                 spent, deploy>>

SyncReturn ==
  /\ probe.phase = "loop" /\ probe.idx > Len(probe.files)
  /\ probe' = [probe EXCEPT !.phase = "returned",
                            !.result = [successCount |-> probe.successCount,
                                        errorCount |-> probe.errorCount,
                                        total |-> Len(probe.files)]]
  /\ UNCHANGED <<redis, stage, worker, storage, catalog, nextJob, nextUid, hist, faults, crashes,
                 spent, deploy>>

NextSync ==
  \/ SyncList
  \/ SyncListFail
  \/ \E metaOk \in BOOLEAN : SyncFileOk(metaOk)
  \/ \E metaOk \in BOOLEAN : SyncFileRejected(metaOk)
  \/ SyncFileFail
  \/ SyncReturn

SpecSync == InitSync /\ [][NextSync]_vars

(***************************************************************************)
(* Vocabulary of the properties.                                           *)
(***************************************************************************)
InQueue(u) == \E q \in DOMAIN redis : \E i \in DOMAIN redis[q] : redis[q][i].uid = u

IsJob(u) == hist[u].kind = "job"

IsTask(u) == hist[u].kind = "task"

TasksOf(u) == {t \in DOMAIN hist : IsTask(t) /\ hist[t].parent = u}

Ended(u) == IsTask(u) /\ hist[u].status \in {"ok", "failed"}

RowsAt(path) == {i \in DOMAIN catalog : catalog[i].storage_path = path}

IsOuter(e) == e[1] = "outer"

IsInner(e) == e[1] = "inner"

Delays(sl) == [i \in 1..Len(sl) |-> sl[i][3]]

SucceededOnThird(w) ==
  worker[w].pc = "done" /\ worker[w].result = "success" /\ worker[w].attempt = MAX_RETRIES

C2_AtMostOnce ==
  \A u \in DOMAIN hist :
    /\ hist[u].pops <= 1
    /\ hist[u].pops = 1 => ~InQueue(u)
    /\ hist[u].status = "lost" =>
         /\ ~InQueue(u)
         /\ stage.uid # u
         /\ \A w \in Workers : worker[w].uid # u

C2_Witness ==
  /\ \E u \in DOMAIN hist : hist[u].status = "lost" /\ hist[u].pops = 1
  /\ \A q \in QueueNames : redis[q] = <<>>
  /\ stage.pc = "pop"
  /\ \A w \in Workers : worker[w].pc = "pop"

(***************************************************************************)
(* C3: no two workers hold the same queue element.                         *)
(***************************************************************************)
C3_SingleHolder ==
  \A w1, w2 \in Workers :
    (w1 # w2 /\ worker[w1].uid # 0 /\ worker[w2].uid # 0) => worker[w1].uid # worker[w2].uid

C3_Witness ==
  \E w1, w2 \in Workers : w1 # w2 /\ Holding(w1) /\ Holding(w2)

(***************************************************************************)
(* C4: every task that ended in success added exactly one row, the rows    *)
(* are exactly those of the successful tasks, and no two rows of the       *)
(* catalog have the same storage_path.                                     *)
(***************************************************************************)
C4_OneRecordPerSuccess ==
  /\ \A u \in DOMAIN hist : (IsTask(u) /\ hist[u].status = "ok") => hist[u].inserted = 1
  /\ \A u \in DOMAIN hist : (IsTask(u) /\ hist[u].status # "ok") => hist[u].inserted = 0
  /\ Len(catalog) = Cardinality({u \in DOMAIN hist : IsTask(u) /\ hist[u].status = "ok"})
  /\ \A i, j \in DOMAIN catalog : i # j => catalog[i].storage_path # catalog[j].storage_path

C4_Witness ==
  /\ Len(catalog) >= 2
  /\ \E w \in Workers : worker[w].pc = "done" /\ worker[w].result = "success"

(***************************************************************************)
(* C5: of two ended tasks that resolve to the same storage key at most one *)
(* ended in success and at most one row has that locator; when no          *)
(* transient failure was injected exactly one row has it, so the other     *)
(* task ended as a terminal failure.                                       *)
(***************************************************************************)
C5_SameKeyRace ==
  \A u, v \in DOMAIN hist :
    (u # v /\ Ended(u) /\ Ended(v) /\ hist[u].key = hist[v].key) =>
      /\ ~(hist[u].status = "ok" /\ hist[v].status = "ok")
      /\ Cardinality(RowsAt(hist[u].key)) <= 1
      /\ faults = 0 => Cardinality(RowsAt(hist[u].key)) = 1

C5_Witness ==
  \E w1, w2 \in Workers :
    /\ worker[w1].pc = "done" /\ worker[w1].result = "success"
    /\ worker[w2].pc = "done" /\ worker[w2].result = "failed"
    /\ worker[w1].storagePath = worker[w2].storagePath
    /\ faults = 0
    /\ Cardinality(RowsAt(worker[w1].storagePath)) = 1

(***************************************************************************)
(* C6, as stated: a task that succeeds on its third outer attempt has one  *)
(* row and its worker slept exactly twice, for D and then 2*D.             *)
(***************************************************************************)
C6_TwoSleepsOnly ==
  \A w \in Workers :
    SucceededOnThird(w) =>
      /\ Delays(worker[w].sleeps) = <<RETRY_DELAY_MS, 2 * RETRY_DELAY_MS>>
      /\ hist[worker[w].uid].inserted = 1

(***************************************************************************)
(* C6, amended: a task that succeeds on its third outer attempt has one    *)
(* row and the outer retry slept exactly twice, for D and then 2*D; the    *)
(* retry of the insert may add sleeps of its own within an attempt.        *)
(***************************************************************************)
C6_OuterBackoff ==
  \A w \in Workers :
    SucceededOnThird(w) =>
      /\ Delays(SelectSeq(worker[w].sleeps, IsOuter)) = <<RETRY_DELAY_MS, 2 * RETRY_DELAY_MS>>
      /\ hist[worker[w].uid].inserted = 1
      /\ Cardinality(RowsAt(worker[w].storagePath)) = 1

C6_Witness ==
  \E w \in Workers : SucceededOnThird(w) /\ worker[w].nDownload = 3

(***************************************************************************)
(* C7: a task whose three outer attempts all failed has no row, is on no   *)
(* queue, and there is no list besides the two queues to hold it.          *)
(***************************************************************************)
C7_AbandonedSilently ==
  /\ DOMAIN redis = QueueNames
  /\ \A u \in DOMAIN hist :
       (IsTask(u) /\ hist[u].status = "failed") =>
         /\ hist[u].attempts = MAX_RETRIES
         /\ hist[u].inserted = 0
         /\ hist[u].pops = 1
         /\ ~InQueue(u)

C7_Witness ==
  \E w \in Workers :
    /\ worker[w].pc = "done" /\ worker[w].result = "failed"
    /\ worker[w].nDownload = 3
    /\ RowsAt(hist[worker[w].uid].key) = {}

(***************************************************************************)
(* C8, as stated: the retry of the catalog insert sleeps D*2^(k-1) after   *)
(* failed insert attempt k.                                                *)
(***************************************************************************)
C8_InnerExponential ==
  \A w \in Workers :
    \A i \in DOMAIN worker[w].sleeps :
      IsInner(worker[w].sleeps[i]) =>
        worker[w].sleeps[i][3] = RETRY_DELAY_MS * Pow2(worker[w].sleeps[i][2] - 1)

(***************************************************************************)
(* C9: for one dequeued task there are at most 9 insert attempts and at    *)
(* most 3 download and 3 upload attempts.                                  *)
(***************************************************************************)
C9_AttemptBounds ==
  \A w \in Workers :
    /\ worker[w].nInsert <= MAX_RETRIES * MAX_RETRIES
    /\ worker[w].nDownload <= MAX_RETRIES
    /\ worker[w].nUpload <= MAX_RETRIES

C9_Witness ==
  \E w \in Workers :
    /\ worker[w].nInsert = MAX_RETRIES * MAX_RETRIES
    /\ worker[w].nDownload = MAX_RETRIES
    /\ worker[w].nUpload = MAX_RETRIES
    /\ worker[w].result = "failed"

(***************************************************************************)
(* C10: a job whose listing failed has no task enqueued, was dequeued once *)
(* and is on no queue, and the stage is not stopped by it.                 *)
(***************************************************************************)
C10_ListingFailureAbandons ==
  /\ \A u \in DOMAIN hist :
       (IsJob(u) /\ hist[u].status = "listfail") =>
         /\ hist[u].pushed = 0
         /\ TasksOf(u) = {}
         /\ hist[u].pops = 1
         /\ ~InQueue(u)
         /\ stage.uid # u
  /\ stage.pc = "exited" => crashes > 0

C10_Witness ==
  \E u, v \in DOMAIN hist :
    /\ IsJob(u) /\ hist[u].status = "listfail"
    /\ IsJob(v) /\ v > u /\ hist[v].pops = 1

(***************************************************************************)
(* C11, as stated: every job that was taken off the job queue was taken by *)
(* the import service, which expands it into image tasks; no other         *)
(* consumer takes a job and drops it without pushing tasks.                *)
(***************************************************************************)
C11_OnlyStageConsumes ==
  \A u \in DOMAIN hist :
    (IsJob(u) /\ hist[u].pops >= 1) => hist[u].status # "discarded"

(***************************************************************************)
(* C12, as stated: every job an intake route has answered with status      *)
(* 'queued' and that no consumer has taken yet is on the list the import   *)
(* service pops.                                                           *)
(***************************************************************************)
C12_QueuedWhereStagePops ==
  \A u \in DOMAIN hist :
    (IsJob(u) /\ hist[u].status = "queued") =>
      \E i \in DOMAIN redis[FOLDER_IMPORT_QUEUE] : redis[FOLDER_IMPORT_QUEUE][i].uid = u

(***************************************************************************)
(* C13, as stated: no process exits on a termination signal between the    *)
(* dequeue of an item and the end of that item's processing, retry sleeps  *)
(* included: no item is lost to a signal.                                  *)
(***************************************************************************)
C13_FinishesBeforeExit ==
  \A u \in DOMAIN hist : ~(hist[u].status = "lost" /\ hist[u].exit = "signal")

(***************************************************************************)
(* C14, as stated: no service process exits because of a failure of the    *)
(* connection to the queue.                                                *)
(***************************************************************************)
C14_NeverExitsOnQueueFailure ==
  /\ stage.exit # "connect"
  /\ \A w \in Workers : worker[w].exit # "connect"

(***************************************************************************)
(* C14, amended: once main has connected, a queue failure never ends the   *)
(* process.  A failed blPop puts the service loop to sleep for the fixed   *)
(* QUEUE_ERROR_DELAY_MS, after which it pops again; a process that was in  *)
(* its service loop exits only on a signal or a kill.  Only a failure of   *)
(* the connect at the start of main ends the process.                      *)
(***************************************************************************)
InLoop(pr) == pr.pc \notin {"connect", "exited"}

LoopStep(pr, after) ==
  /\ (InLoop(pr) /\ after.pc = "exited") => after.exit \in {"signal", "kill"}
  /\ (pr.pc = "backoff" /\ after # pr) =>
        /\ pr.wait = QUEUE_ERROR_DELAY_MS
        /\ after.pc = "pop" \/ (after.pc = "exited" /\ after.exit = "signal")
  /\ (pr.pc # "backoff" /\ after.pc = "backoff") => pr.pc = "pop" /\ faults' = faults + 1
  /\ after.exit = "connect" => after.pc = "exited" /\ pr.pc \in {"connect", "exited"}

C14_LoopSurvivesQueueFailure ==
  [][LoopStep(stage, stage') /\ \A w \in Workers : LoopStep(worker[w], worker'[w])]_vars

C14_Witness ==
  /\ stage.pc = "backoff" /\ stage.wait = QUEUE_ERROR_DELAY_MS
  /\ \E w \in Workers : worker[w].pc = "backoff" /\ worker[w].wait = QUEUE_ERROR_DELAY_MS
  /\ \E w \in Workers : worker[w].pc = "exited" /\ worker[w].exit = "connect"

(***************************************************************************)
(* C15: the image tasks of one job are appended to the task queue in the   *)
(* order of the listing: the k-th task the import service appends for a    *)
(* job goes to the tail of the list and carries the k-th file listed.      *)
(***************************************************************************)
TaskPushed == nextUid' = nextUid + 1 /\ hist'[nextUid].kind = "task"

C15_ListingOrder ==
  [][TaskPushed =>
       LET q == redis'[IMAGE_TASK_QUEUE]
           e == q[Len(q)]
           t == JSONParse(e.text)
           k == hist'[hist'[nextUid].parent].pushed
       IN  /\ e.uid = nextUid
           /\ q = Append(redis[IMAGE_TASK_QUEUE], e)
           /\ k \in DOMAIN ListFiles(t)
           /\ Prop(t, "file_id") = Prop(ListFiles(t)[k], "id")
           /\ Prop(t, "file_name") = Prop(ListFiles(t)[k], "name")]_vars

C15_Witness ==
  \E i, j \in DOMAIN redis[IMAGE_TASK_QUEUE] :
    LET ti == JSONParse(redis[IMAGE_TASK_QUEUE][i].text)
        tj == JSONParse(redis[IMAGE_TASK_QUEUE][j].text)
    IN  /\ i < j
        /\ Prop(ti, "job_id") = Prop(tj, "job_id")
        /\ Prop(ti, "file_id") = Prop(ListFiles(ti)[1], "id")
        /\ Prop(tj, "file_id") = Prop(ListFiles(tj)[2], "id")

(***************************************************************************)
(* C16: in a deployment of one worker, the rows of the tasks that succeed  *)
(* are inserted in the order in which the tasks were pushed.               *)
(***************************************************************************)
HasRow(t) == IsTask(t) /\ hist[t].row > 0

C16_SingleWorkerOrder ==
  deploy.workers = 1 =>
    \A t1, t2 \in DOMAIN hist :
      (HasRow(t1) /\ HasRow(t2) /\ t1 < t2) => hist[t1].row < hist[t2].row

C16_Witness ==
  /\ deploy.workers = 1
  /\ \E t1, t2 \in DOMAIN hist :
       /\ HasRow(t1) /\ HasRow(t2) /\ t1 < t2
       /\ hist[t1].parent = hist[t2].parent
       /\ hist[t1].attempts > 1

(***************************************************************************)
(* C17: with two workers a task pushed later can get its row before a task *)
(* of the same job pushed earlier (the witness); whenever rows are out of  *)
(* the push order, the two tasks were taken by different workers.          *)
(***************************************************************************)
C17_ReorderAcrossWorkers ==
  \A t1, t2 \in DOMAIN hist :
    (HasRow(t1) /\ HasRow(t2) /\ t1 < t2 /\ hist[t2].row < hist[t1].row)
      => /\ hist[t1].worker # hist[t2].worker
         /\ deploy.workers >= 2

C17_Witness ==
  /\ faults = 0 /\ crashes = 0
  /\ \E t1, t2 \in DOMAIN hist :
       /\ HasRow(t1) /\ HasRow(t2) /\ t1 < t2
       /\ hist[t1].parent = hist[t2].parent
       /\ hist[t2].row < hist[t1].row

(***************************************************************************)
(* C18: a worker holds at most one task at a time: the tasks a worker has  *)
(* taken and not ended are at most the one it is processing, and a worker  *)
(* at its blPop holds none.                                                *)
(***************************************************************************)
HeldBy(w) == {u \in DOMAIN hist : IsTask(u) /\ hist[u].worker = w /\ hist[u].status = "held"}

C18_OneTaskAtATime ==
  \A w \in Workers :
    /\ Cardinality(HeldBy(w)) <= 1
    /\ HeldBy(w) \subseteq {worker[w].uid}
    /\ Holding(w) => HeldBy(w) = {worker[w].uid}
    /\ ~Holding(w) => HeldBy(w) = {}

C18_Witness ==
  /\ deploy.workers = 1
  /\ \E w \in Workers :
       /\ worker[w].pc = "sleepOuter"
       /\ HeldBy(w) = {worker[w].uid}
       /\ redis[IMAGE_TASK_QUEUE] # <<>>

(***************************************************************************)
(* C19: the effective mime type is the provider's when that is present and *)
(* begins with image/, otherwise the task's when that is present,          *)
(* otherwise image/jpeg.                                                   *)
(***************************************************************************)
Present(v) == v \notin {Undefined, Null, Str(<<>>)}

MimeResolved == probe.phase \in {"mime", "both"}

C19_EffectiveMimeType ==
  MimeResolved =>
    probe.mimeType =
      IF Present(probe.got.mimeType) /\ probe.got.mimeType[2][1] = "image/"
      THEN probe.got.mimeType
      ELSE IF Present(probe.mime_type) THEN probe.mime_type ELSE Str(<<"image/", "jpeg">>)

C19_Witness ==
  /\ MimeResolved
  /\ probe.mime_type = Str(<<"image/", "png">>)
  /\ probe.got.mimeType = Str(<<"application/", "octet-stream">>)
  /\ probe.mimeType = Str(<<"image/", "png">>)

(***************************************************************************)
(* C20: the effective size is the task's file_size when that is present    *)
(* and greater than zero, and the provider's size in every other case.     *)
(***************************************************************************)
SizeResolved == probe.phase \in {"size", "both"}

C20_EffectiveSize ==
  SizeResolved =>
    probe.size =
      IF Present(probe.file_size) /\ probe.file_size[2] > 0
      THEN probe.file_size
      ELSE probe.got.size

C20_Witness ==
  /\ SizeResolved
  /\ probe.file_size = Num(5)
  /\ probe.got.size = Num(9)
  /\ probe.size = Num(5)

(***************************************************************************)
(* C21: storage is keyed by (source, file_id, file_name).  Every object    *)
(* lies under the key of the triple of a task that was taken, tasks of the *)
(* same triple share one object, however many of them were processed, and  *)
(* the object is what processing the triple once stores.                   *)
(***************************************************************************)
KeyOfTriple(sent) ==
  Str(<<"images/">> \o ToStr(Prop(sent, "source")) \o <<"/">> \o ToStr(Prop(sent, "file_id"))
      \o <<"/">> \o ToStr(Prop(sent, "file_name")))

Triple(sent) == <<Prop(sent, "source"), Prop(sent, "file_id"), Prop(sent, "file_name")>>

Taken(t) == IsTask(t) /\ hist[t].pops = 1

C21_OneObjectPerTriple ==
  /\ \A k \in DOMAIN storage :
       \E t \in DOMAIN hist : Taken(t) /\ k = KeyOfTriple(hist[t].sent)
  /\ \A t \in DOMAIN hist :
       (Taken(t) /\ KeyOfTriple(hist[t].sent) \in DOMAIN storage)
         => storage[KeyOfTriple(hist[t].sent)] = Prop(hist[t].sent, "mime_type")
  /\ \A t \in DOMAIN hist :
       (IsTask(t) /\ hist[t].status = "ok") => KeyOfTriple(hist[t].sent) \in DOMAIN storage
  /\ Cardinality(DOMAIN storage)
       <= Cardinality({Triple(hist[t].sent) : t \in {u \in DOMAIN hist : Taken(u)}})

C21_Witness ==
  \E t1, t2 \in DOMAIN hist :
    /\ IsTask(t1) /\ IsTask(t2) /\ t1 # t2
    /\ Triple(hist[t1].sent) = Triple(hist[t2].sent)
    /\ hist[t1].status = "ok" /\ hist[t2].status = "failed"
    /\ faults = 0
    /\ Cardinality(DOMAIN storage) = 1

(***************************************************************************)
(* C22: the catalog is append-only: every row of the catalog is, in the    *)
(* next state, at the same place with the same fields.                     *)
(***************************************************************************)
C22_AppendOnly ==
  [][\A i \in DOMAIN catalog : i \in DOMAIN catalog' /\ catalog'[i] = catalog[i]]_vars

C22_Witness ==
  /\ Len(catalog) >= 1
  /\ \E t \in DOMAIN hist :
       /\ IsTask(t) /\ hist[t].status = "failed" /\ hist[t].attempts = MAX_RETRIES
       /\ Cardinality(RowsAt(hist[t].key)) = 1

(***************************************************************************)
(* C23: the storage_path of every row names an object that is in the       *)
(* bucket.  The converse fails (the witness): a worker killed between the  *)
(* upload and the insert leaves an object that no row names.               *)
(***************************************************************************)
C23_RowsHaveObjects ==
  \A i \in DOMAIN catalog :
    \E k \in DOMAIN storage : catalog[i].storage_path = StoragePath(MINIO_BUCKET, k)

C23_Witness ==
  /\ \E k \in DOMAIN storage : RowsAt(StoragePath(MINIO_BUCKET, k)) = {}
  /\ \E t \in DOMAIN hist : IsTask(t) /\ hist[t].status = "lost" /\ hist[t].exit = "kill"
  /\ catalog = <<>>
  /\ redis[IMAGE_TASK_QUEUE] = <<>>
  /\ \A w \in Workers : worker[w].pc = "pop"

(***************************************************************************)
(* C24: every task carries the job_id, folder_id, folder_url and source of *)
(* the job it was built from and the id and name of a listed file, and the *)
(* element on the queue and the task a worker took have the fields that    *)
(* were put into the task.                                                 *)
(***************************************************************************)
Provenance == {"job_id", "folder_id", "folder_url", "source"}

Transported == Provenance \cup {"file_id", "file_name"}

SameFields(a, b, keys) == \A f \in keys : Prop(a, f) = Prop(b, f) /\ Prop(a, f) # Undefined

OnlyJobF1Done ==
  /\ faults = 0 /\ crashes = 0 /\ ~deploy.queueWorker
  /\ nextJob = 2
  /\ \E u \in DOMAIN hist :
       /\ IsJob(u) /\ hist[u].status = "ok"
       /\ Prop(hist[u].sent, "folder_id") = Str(<<"F1">>)
       /\ Prop(hist[u].sent, "source") = Str(<<"google_drive">>)
       /\ \A t \in TasksOf(u) : Ended(t)

C25_EndToEnd ==
  OnlyJobF1Done =>
    /\ Cardinality({t \in DOMAIN hist : IsTask(t)}) = 2
    /\ Len(catalog) = 2
    /\ \A i \in DOMAIN catalog : catalog[i].source = Str(<<"google_drive">>)
    /\ {catalog[i].name : i \in DOMAIN catalog} = {Str(<<"x.jpg">>), Str(<<"y.png">>)}
    /\ catalog[1].storage_path # catalog[2].storage_path
    /\ \A i \in DOMAIN catalog :
         /\ catalog[i].name = Str(<<"x.jpg">>) =>
               catalog[i].google_drive_id = Str(<<"a">>) /\ catalog[i].size = Num(100)
         /\ catalog[i].name = Str(<<"y.png">>) =>
               catalog[i].google_drive_id = Str(<<"b">>) /\ catalog[i].size = Num(200)

C25_Witness ==
  /\ OnlyJobF1Done
  /\ Len(catalog) = 2
  /\ \A w \in Workers : worker[w].pc = "pop"

(***************************************************************************)
(* C26, as stated: a request answered 200 has appended exactly one job,    *)
(* carrying the job_id of the answer, to the tail of the job queue; a      *)
(* request answered 400 or 500 has left the lists as they were.            *)
(***************************************************************************)
C26_AnswerMatchesQueue ==
  probe.phase = "answered" =>
    /\ probe.response.code = 200 =>
         /\ Len(redis[FOLDER_IMPORT_QUEUE]) = Len(probe.before[FOLDER_IMPORT_QUEUE]) + 1
         /\ redis[FOLDER_IMPORT_QUEUE] =
              Append(probe.before[FOLDER_IMPORT_QUEUE],
                     redis[FOLDER_IMPORT_QUEUE][Len(redis[FOLDER_IMPORT_QUEUE])])
         /\ Prop(JSONParse(redis[FOLDER_IMPORT_QUEUE][Len(redis[FOLDER_IMPORT_QUEUE])].text), "job_id")
              = probe.response.job_id
    /\ probe.response.code \in {400, 500} => redis = probe.before

(***************************************************************************)
(* C27: a blPop that times out on an empty list is a no-op iteration: the  *)
(* step changes no list, no object, no row and no process, raises no       *)
(* error, and the consumer is at its blPop again.  A timeout is the one    *)
(* event of the environment that is neither a failure nor a termination.   *)
(***************************************************************************)
TimedOut == spent' = spent + 1 /\ faults' = faults /\ crashes' = crashes

C27_TimeoutNoOp ==
  [][TimedOut =>
       /\ UNCHANGED <<redis, storage, catalog, stage, worker, hist, nextJob, nextUid>>
       /\ \/ stage.pc = "pop" /\ redis[FOLDER_IMPORT_QUEUE] = <<>>
          \/ \E w \in Workers : worker[w].pc = "pop" /\ redis[IMAGE_TASK_QUEUE] = <<>>]_vars

C27_Witness ==
  /\ faults = 0 /\ crashes = 0 /\ nextJob = 2
  /\ \E u \in DOMAIN hist :
       /\ IsJob(u) /\ hist[u].status = "ok" /\ hist[u].listed = 2
       /\ spent = 2 + hist[u].listed + 1
  /\ Len(catalog) = 2
  /\ \A w \in Workers : worker[w].pc = "pop"

(***************************************************************************)
(* C28: the lists are FIFO.  Every change of a list either appends the     *)
(* element just created at the tail or removes the head, which is then     *)
(* the element taken; the elements of a list are in the order in which     *)
(* they were pushed.  So consumers take elements in the order of their     *)
(* pushes.                                                                 *)
(***************************************************************************)
InPushOrder(list) == \A i, j \in DOMAIN list : i < j => list[i].uid < list[j].uid

C28_Fifo ==
  [][\A q \in QueueNames :
       /\ InPushOrder(redis'[q])
       /\ redis'[q] # redis[q] =>
            \/ /\ redis[q] # <<>>
               /\ redis'[q] = Tail(redis[q])
               /\ hist'[Head(redis[q]).uid].pops = hist[Head(redis[q]).uid].pops + 1
               /\ \/ stage'.uid = Head(redis[q]).uid
                  \/ \E w \in Workers : worker'[w].uid = Head(redis[q]).uid
                  \/ hist'[Head(redis[q]).uid].status = "discarded"
            \/ /\ redis'[q] # <<>>
               /\ redis'[q] = Append(redis[q], redis'[q][Len(redis'[q])])
               /\ redis'[q][Len(redis'[q])].uid = nextUid
               /\ nextUid' = nextUid + 1]_vars

C28_Witness ==
  /\ deploy.workers = 1
  /\ \E t1, t2 \in DOMAIN hist :
       /\ IsTask(t1) /\ IsTask(t2) /\ t1 < t2
       /\ hist[t1].pops = 1 /\ worker[1].uid = t1
       /\ InQueue(t2) /\ hist[t2].pops = 0

(***************************************************************************)
(* C29: within every outer attempt the steps run download, upload, insert. *)
(* A worker is at the upload only after the download of the same attempt   *)
(* returned, and at the insert only after the upload of the same attempt   *)
(* returned; so an attempt that follows a failed insert has downloaded and *)
(* uploaded again before it inserts.                                       *)
(***************************************************************************)
StepsInOrder(a, b) ==
  /\ b.pc = "upload" /\ a.pc # "upload" =>
        /\ a.pc = "download" /\ b.uid = a.uid /\ b.attempt = a.attempt
        /\ b.nDownload = a.nDownload + 1
  /\ b.pc = "insert" /\ a.pc # "insert" =>
        /\ b.uid = a.uid /\ b.attempt = a.attempt
        /\ \/ a.pc = "upload" /\ b.nUpload = a.nUpload + 1
           \/ a.pc = "sleepInner" /\ b.iattempt = a.iattempt + 1
  /\ b.pc = "download" /\ a.pc # "download" =>
        \/ a.pc = "pop" /\ b.attempt = 1
        \/ a.pc = "sleepOuter" /\ b.uid = a.uid /\ b.attempt = a.attempt + 1
  /\ b.uid = a.uid /\ b.attempt # a.attempt => a.pc = "sleepOuter" /\ b.pc = "download"

C29_StepsInOrder ==
  [][\A w \in Workers : StepsInOrder(worker[w], worker'[w])]_vars

C29_Witness ==
  \E w \in Workers :
    /\ worker[w].pc = "insert" /\ worker[w].attempt = 2
    /\ worker[w].nInsert > 0
    /\ worker[w].nDownload = 2 /\ worker[w].nUpload = 2

KeyedBySource(r, t) ==
  /\ r.name = t.file_name
  /\ r.source = t.source
  /\ t.source = Str(<<"google_drive">>) => r.google_drive_id = t.file_id /\ r.dropbox_id = Null
  /\ t.source = Str(<<"dropbox">>) => r.dropbox_id = t.file_id /\ r.google_drive_id = Null

C31_ProviderIdBySource ==
  /\ \A w \in Workers :
       probe.row[w] # 0 => KeyedBySource(catalog[probe.row[w]], probe.task[w])
  /\ \A i \in DOMAIN catalog : \E w \in Workers : probe.row[w] = i

C31_Witness ==
  /\ Len(catalog) = 2
  /\ \E i, j \in DOMAIN catalog :
       /\ catalog[i].source = Str(<<"google_drive">>) /\ catalog[i].google_drive_id = Str(<<"k">>)
       /\ catalog[j].source = Str(<<"dropbox">>) /\ catalog[j].dropbox_id = Str(<<"k", "/", "a">>)

(***************************************************************************)
(* C32, as stated: while at least one worker runs, every task put on the   *)
(* task queue eventually ends with a record or with a terminal failure.    *)
(***************************************************************************)
Running(w) == w \in Deployed /\ worker[w].pc # "exited"

NoWorkerRuns == \A w \in Workers : ~Running(w)

C32_EveryTaskEnds == []<>(NoWorkerRuns \/ \A u \in DOMAIN hist : IsTask(u) => Ended(u))

(***************************************************************************)
(* C32, amended: a worker never makes more than 3 outer attempts for a     *)
(* task, and after the end of a task, terminal failure included, its next  *)
(* step is back at the dequeue (unless a signal ends the process); while   *)
(* at least one worker runs, every task put on the task queue eventually   *)
(* ends with a record or a terminal failure, or is lost with the worker    *)
(* that held it when that worker was terminated.                           *)
(***************************************************************************)
Settled(u) == Ended(u) \/ hist[u].status = "lost"

C32_FailureDoesNotStopWorker ==
  /\ [][\A w \in Workers :
          /\ worker'[w].attempt <= MAX_RETRIES
          /\ worker[w].pc = "done" /\ worker'[w] # worker[w] =>
                worker'[w].pc = "pop" \/ crashes' = crashes + 1]_vars
  /\ []<>(NoWorkerRuns \/ \A u \in DOMAIN hist : IsTask(u) => Settled(u))

C32_Witness ==
  \E t1, t2 \in DOMAIN hist :
    /\ IsTask(t1) /\ IsTask(t2) /\ t1 < t2
    /\ hist[t1].status = "failed" /\ hist[t1].attempts = MAX_RETRIES
    /\ hist[t2].pops = 1 /\ hist[t2].worker = hist[t1].worker

(***************************************************************************)
(* C33: when a push to the task queue fails, the job is abandoned and the  *)
(* lists stay as they are, with the tasks already pushed.  At every moment *)
(* the tasks pushed for a job carry, in push order, the first files of its *)
(* listing; no step of the import service removes a task from the queue.   *)
(***************************************************************************)
IsPrefix(a, b) == Len(a) <= Len(b) /\ SubSeq(b, 1, Len(a)) = a

PrefixOfListing(u) ==
  LET files == ListFiles(hist[u].sent)
      ts == TasksOf(u)
  IN  /\ Cardinality(ts) <= Len(files)
      /\ \A t \in ts :
           LET k == Cardinality({x \in ts : x <= t})
           IN  /\ Prop(hist[t].sent, "file_id") = Prop(files[k], "id")
               /\ Prop(hist[t].sent, "file_name") = Prop(files[k], "name")

PushFailed == stage.pc = "push" /\ hist'[stage.uid].status = "pushfail"

C33_AbandonedWithPrefix ==
  [][/\ \A u \in DOMAIN hist' : (IsJob(u) => PrefixOfListing(u))'
     /\ stage' # stage => IsPrefix(redis[IMAGE_TASK_QUEUE], redis'[IMAGE_TASK_QUEUE])
     /\ PushFailed =>
          /\ redis' = redis
          /\ stage' = StageIdle
          /\ \A t \in DOMAIN hist : hist'[t].parent = hist[t].parent /\ hist'[t].sent = hist[t].sent
          /\ DOMAIN hist' = DOMAIN hist]_vars

C33_Witness ==
  \E u \in DOMAIN hist :
    /\ IsJob(u) /\ hist[u].status = "pushfail"
    /\ hist[u].listed = 2 /\ Cardinality(TasksOf(u)) = 1
    /\ \E t \in TasksOf(u) : InQueue(t) /\ Prop(hist[t].sent, "file_id") = Str(<<"a">>)
    /\ stage.pc = "pop"

(***************************************************************************)
(* C34, as stated: a task that fails all 3 attempts has slept exactly      *)
(* twice, for D and then 2*D.                                              *)
(***************************************************************************)
FailedAll(w) == worker[w].pc = "done" /\ worker[w].result = "failed"

C34_TwoSleepsWhenFailed ==
  \A w \in Workers :
    FailedAll(w) => Delays(worker[w].sleeps) = <<RETRY_DELAY_MS, 2 * RETRY_DELAY_MS>>

(***************************************************************************)
(* C34, amended: the outer retry never sleeps after the last failed        *)
(* attempt.  A task that fails all 3 attempts has made 3 attempts, the     *)
(* outer retry slept exactly twice, for D and then 2*D, after attempts 1   *)
(* and 2, and the failure of attempt 3 ends the task at once; the retry of *)
(* the insert may add sleeps of its own within an attempt.                 *)
(***************************************************************************)
C34_NoSleepAfterLastAttempt ==
  [][\A w \in Workers :
       /\ worker'[w].pc = "sleepOuter" => worker'[w].attempt < MAX_RETRIES
       /\ (FailedAll(w))' =>
            LET outer == SelectSeq(worker'[w].sleeps, IsOuter)
            IN  /\ worker'[w].attempt = MAX_RETRIES
                /\ Delays(outer) = <<RETRY_DELAY_MS, 2 * RETRY_DELAY_MS>>
                /\ \A i \in DOMAIN outer : outer[i][2] = i
       /\ (FailedAll(w))' /\ ~FailedAll(w) =>
            /\ worker[w].pc \in {"download", "upload", "insert"}
            /\ worker[w].attempt = MAX_RETRIES
            /\ worker'[w].sleeps = worker[w].sleeps]_vars

C34_Witness ==
  \E w \in Workers :
    /\ FailedAll(w)
    /\ worker[w].nDownload = 3 /\ worker[w].nUpload = 0
    /\ Len(worker[w].sleeps) = 2

Pushed == {t \in DOMAIN hist : IsTask(t)}

Dequeued == {t \in Pushed : hist[t].pops > 0}

C36_NoDuplication ==
  /\ \A t \in Pushed :
       /\ hist[t].pops <= 1
       /\ hist[t].inserted <= hist[t].pops
       /\ hist[t].pops = 0 => InQueue(t)
       /\ hist[t].pops > 0 => ~InQueue(t)
  /\ Cardinality(Dequeued) <= Cardinality(Pushed)
  /\ Len(catalog) <= Cardinality(Dequeued)
  /\ \A i \in DOMAIN catalog : Cardinality({t \in Dequeued : hist[t].row = i}) = 1

C36_Witness ==
  /\ Cardinality(Pushed) = 2 /\ Cardinality(Dequeued) = 2
  /\ Len(catalog) = 1
  /\ \E t \in Dequeued : hist[t].status = "failed" /\ hist[t].inserted = 0

(***************************************************************************)
(* C37: every task the import service builds from a listed file has a      *)
(* mime_type that begins with "image/", and the mime type resolved for the *)
(* record of such a task begins with "image/" whatever mime type the       *)
(* download reports.                                                       *)
(***************************************************************************)
C37_ImageMimeTypes ==
  /\ probe.phase \in {"task", "record"} => StartsWithImage(Prop(probe.task, "mime_type"))
  /\ probe.phase = "record" => StartsWithImage(probe.resolved)
  /\ probe.phase = "filtered" => ~StartsWithImage(probe.mimeType)

C37_Witness ==
  /\ probe.phase = "record"
  /\ probe.got = Str(<<"application/", "octet-stream">>)
  /\ Prop(probe.task, "mime_type") = Str(<<"image/", "png">>)
  /\ probe.resolved = Str(<<"image/", "png">>)

(***************************************************************************)
(* C38: a job of source dropbox is never ended by an error of its listing  *)
(* or of a push: once taken by the import service it completes with zero   *)
(* files listed (unless the process is terminated), it has no task, and no *)
(* task and no row of source dropbox exists.                               *)
(***************************************************************************)
IsDropbox(o) == Prop(o, "source") = Str(<<"dropbox">>)

TakesRaw(q) ==
  /\ redis[q] # <<>>
  /\ ~Parsable(Head(redis[q]).text)
  /\ Len(redis'[q]) < Len(redis[q])

Sleeping(pr) == pr.pc = "backoff" /\ pr.wait = QUEUE_ERROR_DELAY_MS /\ pr.uid = 0

C39_MalformedDropped ==
  [][/\ \A q \in QueueNames :
          TakesRaw(q) =>
            /\ redis' = [redis EXCEPT ![q] = Tail(@)]
            /\ UNCHANGED <<storage, catalog, nextUid, nextJob>>
            /\ \A u \in DOMAIN hist : u # Head(redis[q]).uid => hist'[u] = hist[u]
            /\ q = FOLDER_IMPORT_QUEUE => Sleeping(stage') /\ worker' = worker
            /\ q = IMAGE_TASK_QUEUE =>
                  /\ stage' = stage
                  /\ \E w \in Deployed :
                       /\ Sleeping(worker'[w])
                       /\ \A v \in Workers \ {w} : worker'[v] = worker[v]
     /\ stage.pc = "backoff" /\ stage' # stage => stage' = StageIdle
     /\ \A w \in Workers :
          worker[w].pc = "backoff" /\ worker'[w] # worker[w] => worker'[w] = WorkerIdle]_vars

C39_Witness ==
  /\ probe.first = "raw"
  /\ hist[1].status = "dropped" /\ hist[2].status = "ok" /\ hist[2].pushed = 2
  /\ hist[3].status = "dropped"
  /\ \E t \in DOMAIN hist :
       IsTask(t) /\ hist[t].status = "ok" /\ hist[t].worker = hist[3].worker
  /\ Len(catalog) = 2

(***************************************************************************)
(* C40: in the import without a queue a file that fails does not stop the  *)
(* files after it.  The files attempted so far are the first files of the  *)
(* listing, each once and in order; every attempt counted one success or   *)
(* one error; the successes are the rows inserted; the result returned has *)
(* successCount + errorCount = total = the number of files listed.         *)
(***************************************************************************)
C40_EveryFileOnce ==
  probe.phase \in {"loop", "returned"} =>
    /\ probe.attempted = [i \in 1..(probe.idx - 1) |-> Prop(probe.files[i], "id")]
    /\ probe.successCount + probe.errorCount = Len(probe.attempted)
    /\ probe.successCount = Len(catalog) - probe.before
    /\ probe.files = ListFilesInFolder(probe.folderId)
    /\ probe.phase = "returned" =>
          /\ Len(probe.attempted) = Len(probe.files)
          /\ probe.result.total = Len(probe.files)
          /\ probe.result.successCount + probe.result.errorCount = probe.result.total
          /\ probe.result.successCount = Len(catalog) - probe.before

C40_Witness ==
  /\ probe.phase = "returned"
  /\ probe.attempted = <<Str(<<"a">>), Str(<<"b">>)>>
  /\ probe.before = 1
  /\ catalog[1].google_drive_id = Str(<<"a">>)
  /\ probe.result = [successCount |-> 1, errorCount |-> 1, total |-> 2]
  /\ Len(catalog) = 2 /\ catalog[2].google_drive_id = Str(<<"b">>)

====
